---- MODULE Spec2Model ----
(***************************************************************************)
(* A model of the JSONL state store of robot-writers-room:                 *)
(*   src/state/store.py       Event, Query, parse_relative                 *)
(*   src/state/jsonl_store.py JSONLStore and the module-level paths        *)
(*                                                                         *)
(* Strings that the code inspects (card ids and subjects, for the "card:"  *)
(* prefix) are sequences of tokens: "card:area51" is <<"card:","area51">>. *)
(* Other strings are TLA+ strings.  A timestamp is the number n of the     *)
(* instant whose text Event.now_iso() writes ("YYYY-MM-DDTHH:MM:SSZ"); on  *)
(* texts of that one form the order of the texts is the order of the       *)
(* instants.  A Python dict is a function; the empty dict is EmptyMap.     *)
(***************************************************************************)
EXTENDS Integers, Sequences, FiniteSets, TLC

(* ------------------------------ bounds -------------------------------- *)

\* The most lines a log file holds (the specifications stop appending there).
MaxLog == 3
\* Timestamps are 0..MaxTs.
MaxTs == 2
\* Query limits and tail counts are 0..MaxLimit.
MaxLimit == 2
\* The most lines of the log in the card specification.
MaxCardLog == 4
\* The most calls recorded in the history where processes crash and restart.
MaxHist == 5
\* Concurrent writers start no upsert_card once the log holds this many lines.
MaxConc == 2
\* The most characters of a relative time text.
MaxChars == 4

(* ----------------------------- universes ------------------------------ *)

Dirs == {"data", "d1", "d2"}
StoreIds == {"A", "B"}
None == "<None>"
NoneSubject == << "<None>" >>
TsSet == 0..MaxTs
Ops == {"set", "assert", "retract"}

EmptyMap == [x \in {} |-> x]
Put(f, k, v) == [x \in (DOMAIN f) \cup {k} |-> IF x = k THEN v ELSE f[x]]
Pop(f, k) == [x \in (DOMAIN f) \ {k} |-> f[x]]
Range(f) == {f[x] : x \in DOMAIN f}

\* dict.get(k, default) on a dict that holds only the keys it was given (a
\* query as the caller built it, a record as the log line spelt it).
Get(q, k, default) == IF k \in DOMAIN q THEN q[k] ELSE default

RECURSIVE Flatten(_)
Flatten(ss) == IF ss = <<>> THEN <<>> ELSE Head(ss) \o Flatten(Tail(ss))

(* ------------------------------- state -------------------------------- *)

VARIABLES
  DEFAULT_DATA_DIR, \* the module-level path (EVENTS_FILE and CARDS_INDEX_FILE follow it)
  events,           \* per directory: the lines of events.jsonl
  cardsFile,        \* per directory: cards.index.json
  stores,           \* per store object: alive, _latest_by_sp, _cards; and, as
                    \* history, the directory it was constructed on, the
                    \* projection it loaded and the length of the log then,
                    \* and whether materialize was called on it
  uuid,             \* the number of ids uuid4() has handed out
  ret,              \* what the last call returned
  hist,             \* history: the calls that wrote, in order
  tmpFile,          \* per directory: cards.index.json.tmp
  saves,            \* per store object: the upsert_card call in progress
                    \* (where _save_cards_index stands, its open file)
  cardsJson         \* CARDS_FILE, the cards file of the BrainstormingBoard tools

vars == <<DEFAULT_DATA_DIR, events, cardsFile, stores, uuid, ret, hist, tmpFile, saves,
          cardsJson>>

\* EVENTS_FILE and CARDS_INDEX_FILE are reassigned together with
\* DEFAULT_DATA_DIR; a path is named by its directory.
EVENTS_FILE == DEFAULT_DATA_DIR
CARDS_INDEX_FILE == DEFAULT_DATA_DIR

NoRet == [call |-> "none", st |-> None, val |-> <<>>]

\* A path at which there is no file, and a store with no call in progress
\* (as history, a call keeps _cards and the length of the log as it found
\* them: cards0, log0).
NoFile == [st |-> "missing", doc |-> EmptyMap]
NoSave ==
  [pc |-> "idle", dir |-> None, at |-> "none", stale |-> FALSE,
   before |-> EmptyMap, after |-> EmptyMap,
   id |-> NoneSubject, props |-> <<>>, now |-> 0,
   cards0 |-> EmptyMap, log0 |-> 0]

(* ------------------------------- events ------------------------------- *)

\* Event.new: a fresh id, the given (or the current) time.
Event_new(id, a) ==
  [id |-> id, ts |-> a.ts, actor |-> a.actor, op |-> a.op,
   triple |-> a.triple, meta |-> a.meta]

\* The events a caller builds from a sequence of Event.new arguments.
RECURSIVE NewEvents(_, _)
NewEvents(args, n) ==
  IF args = <<>> THEN <<>>
  ELSE <<Event_new(n + 1, Head(args))>> \o NewEvents(Tail(args), n + 1)

\* Event.to_dict: dataclasses.asdict, field by field.
to_dict(ev) ==
  [id |-> ev.id, ts |-> ev.ts, actor |-> ev.actor, op |-> ev.op,
   triple |-> ev.triple, meta |-> ev.meta]

\* Python values that JSON has one form for: under the key "span" a meta
\* map holds a list or a tuple (every other value of the model is a text, a
\* number or a list).
PyList(items) == [py |-> "list", items |-> items]
PyTuple(items) == [py |-> "tuple", items |-> items]

\* json.loads(json.dumps(v)): a tuple is written as an array, and an array
\* is read as a list.
loads_dumps_value(v) == IF v.py = "tuple" THEN PyList(v.items) ELSE v

\* json.loads(json.dumps(d)) of the dict of an event: the texts and the
\* triple (a tuple in d, a list in the line; query and tail rebuild the
\* tuple) come back as they were, the values of meta by their JSON form.
loads_dumps(d) ==
  [d EXCEPT !.meta = [k \in DOMAIN d.meta |->
      IF k = "span" THEN loads_dumps_value(d.meta[k]) ELSE d.meta[k]]]

\* One line of the log: json.dumps(d) + "\n", as json.loads reads it back.
\* len is the number of bytes of the text before the newline; meta.pad
\* stands for it.
json_line(d) == [kind |-> "event", obj |-> loads_dumps(d), len |-> d.meta.pad]

\* The text of a ts that is not an ISO instant (fromisoformat rejects it),
\* and the instant of "1970-01-01T00:00:00", before every instant of the log
\* and every bound of a query.
BadTs == 0 - 2
Epoch == 0 - 1000000

\* A JSON value that is not an object (a list, a number, a string): the
\* keys of a record are never among its attributes.
NonObject == [json |-> "array"]
is_object(obj) == "json" \notin DOMAIN obj

\* {}: what `obj.get("meta") or {}` gives for a record without meta.
EmptyMeta == [tags |-> <<>>, pad |-> 0]

\* A line whose JSON value is not an object.
ValueLine(n) == [kind |-> "value", obj |-> NonObject, len |-> n]

\* A line that is not JSON (json.loads raises).
GarbageLine(n) ==
  [kind |-> "notjson",
   obj |-> [id |-> 0, ts |-> 0, actor |-> "", op |-> "", triple |-> <<>>,
            meta |-> [tags |-> <<>>, pad |-> n]],
   len |-> n]

\* _iter_events: the values of the lines json.loads accepts, in file order
\* (objects or not).
iter_events(log) ==
  LET ok(ln) == ln.kind \in {"event", "value"}
      objs == SelectSeq(log, ok)
  IN [k \in 1..Len(objs) |-> objs[k].obj]

(* ------------------------- construction, files ------------------------ *)

\* _ensure_dirs, had it opened the log for writing whether it exists or not.
ensure_events_file_truncating(log) == <<>>

\* _ensure_dirs on the log: it is created, empty, only when it does not
\* exist (a log that does not exist yet is the empty sequence here); a log
\* that exists is not opened.
ensure_events_file(log) == log

\* _ensure_dirs: a missing projection file is created holding "{}".
ensure_dirs(cf) ==
  IF cf.st = "missing" THEN [st |-> "ok", doc |-> EmptyMap] ELSE cf

\* _load_cards_index, had it kept what it could read of the file.
load_cards_index_lenient(cf) == cf.doc

\* _load_cards_index: the document, or {} when reading or parsing fails.
load_cards_index(cf) == IF cf.st = "ok" THEN cf.doc ELSE EmptyMap

\* JSONLStore.__init__(data_dir): d = None keeps the module-level paths.
Construct(i, d) ==
  LET dir == IF d # None THEN d ELSE DEFAULT_DATA_DIR
      cf == ensure_dirs(cardsFile[dir])
  IN /\ ~stores[i].alive
     /\ DEFAULT_DATA_DIR' = dir
     /\ cardsFile' = [cardsFile EXCEPT ![dir] = cf]
     /\ stores' = [stores EXCEPT ![i] =
           [alive |-> TRUE, dir |-> dir, loaded |-> load_cards_index(cf),
            log0 |-> Len(events[dir]), materialized |-> FALSE,
            latest_by_sp |-> EmptyMap, cards |-> load_cards_index(cf)]]
     /\ ret' = NoRet
     /\ hist' = Append(hist, [call |-> "new", st |-> i, dir |-> dir,
                              evs |-> <<>>, id |-> NoneSubject, props |-> <<>>])
     /\ events' = [events EXCEPT ![dir] = ensure_events_file(events[dir])]
     /\ UNCHANGED <<uuid, tmpFile, saves, cardsJson>>

(* ------------------------------- append ------------------------------- *)

\* index_update, had it kept the entry with the later timestamp.
index_update_by_ts(latest, ev) ==
  LET sp == <<ev.triple[1], ev.triple[2]>>
  IN IF ev.op \in {"set", "assert"}
     THEN IF sp \in DOMAIN latest /\ latest[sp][1] > ev.ts THEN latest
          ELSE Put(latest, sp, <<ev.ts, ev.triple[3]>>)
     ELSE IF ev.op = "retract" THEN Pop(latest, sp)
     ELSE latest

\* index_update, had a retract removed the entry only when it carries the
\* stored object.
index_update_matching_retract(latest, ev) ==
  LET sp == <<ev.triple[1], ev.triple[2]>>
  IN IF ev.op \in {"set", "assert"} THEN Put(latest, sp, <<ev.ts, ev.triple[3]>>)
     ELSE IF ev.op = "retract" /\ sp \in DOMAIN latest /\ latest[sp][2] = ev.triple[3]
     THEN Pop(latest, sp)
     ELSE latest

\* The index update of append, for one event.
index_update(latest, ev) ==
  LET sp == <<ev.triple[1], ev.triple[2]>>
  IN IF ev.op \in {"set", "assert"} THEN Put(latest, sp, <<ev.ts, ev.triple[3]>>)
     ELSE IF ev.op = "retract" THEN Pop(latest, sp)
     ELSE latest

\* The loop of append, had it kept retracts out of the log.
RECURSIVE append_loop_hiding_retracts(_, _, _)
append_loop_hiding_retracts(evs, log, latest) ==
  IF evs = <<>> THEN [log |-> log, latest |-> latest]
  ELSE append_loop_hiding_retracts(Tail(evs),
         IF Head(evs).op = "retract" THEN log
         ELSE Append(log, json_line(to_dict(Head(evs)))),
         index_update(latest, Head(evs)))

\* The loop of append: each event is written to EVENTS_FILE, then indexed.
RECURSIVE append_loop(_, _, _)
append_loop(evs, log, latest) ==
  IF evs = <<>> THEN [log |-> log, latest |-> latest]
  ELSE append_loop(Tail(evs),
                   Append(log, json_line(to_dict(Head(evs)))),
                   index_update(latest, Head(evs)))

ids_of(evs) == [k \in 1..Len(evs) |-> evs[k].id]

\* JSONLStore.append(events), the events built from args by Event.new.
append(i, args) ==
  LET evs == NewEvents(args, uuid)
      r == append_loop(evs, events[EVENTS_FILE], stores[i].latest_by_sp)
  IN /\ stores[i].alive
     /\ events' = [events EXCEPT ![EVENTS_FILE] = r.log]
     /\ stores' = [stores EXCEPT ![i].latest_by_sp = r.latest]
     /\ uuid' = uuid + Len(args)
     /\ ret' = [call |-> "append", st |-> i, val |-> ids_of(evs)]
     /\ hist' = Append(hist, [call |-> "append", st |-> i, dir |-> EVENTS_FILE,
                              evs |-> evs, id |-> NoneSubject, props |-> <<>>])
     /\ UNCHANGED <<DEFAULT_DATA_DIR, cardsFile, tmpFile, saves, cardsJson>>

(* ----------------------------- materialize ---------------------------- *)

\* The warm-up of materialize, had it applied retracts as append does.
RECURSIVE replay_with_retracts(_, _)
replay_with_retracts(objs, latest) ==
  IF objs = <<>> THEN latest
  ELSE IF ~is_object(Head(objs)) THEN latest
  ELSE LET obj == Head(objs)
           tr == Get(obj, "triple", <<>>)
       IN replay_with_retracts(Tail(objs),
            IF Len(tr) = 3 /\ Get(obj, "op", None) \in {"set", "assert"}
            THEN Put(latest, <<tr[1], tr[2]>>, <<Get(obj, "ts", None), tr[3]>>)
            ELSE IF Len(tr) = 3 /\ Get(obj, "op", None) = "retract"
            THEN Pop(latest, <<tr[1], tr[2]>>)
            ELSE latest)

\* The warm-up of materialize: a scan of the log that applies set and
\* assert, reading the record with obj.get.  On a value that is not an
\* object obj.get raises: the scan ends there, the index as built so far.
RECURSIVE replay(_, _)
replay(objs, latest) ==
  IF objs = <<>> THEN latest
  ELSE IF ~is_object(Head(objs)) THEN latest
  ELSE LET obj == Head(objs)
           tr == Get(obj, "triple", <<>>)
       IN replay(Tail(objs),
                 IF Len(tr) = 3 /\ Get(obj, "op", None) \in {"set", "assert"}
                 THEN Put(latest, <<tr[1], tr[2]>>, <<Get(obj, "ts", None), tr[3]>>)
                 ELSE latest)

\* The exception the warm-up ends with, if any.
replay_exc(objs) ==
  IF \E k \in 1..Len(objs) : ~is_object(objs[k]) THEN "AttributeError" ELSE None

\* The index materialize reads, had it been rebuilt from the log at every
\* call.
warmed_always(latest, log) == replay(iter_events(log), EmptyMap)

\* The index materialize reads: rebuilt from the log when it is empty.
warmed(latest, log) ==
  IF DOMAIN latest = {} THEN replay(iter_events(log), latest) ELSE latest

\* The exception materialize raises, if any.
materialize_exc(latest, log) ==
  IF DOMAIN latest = {} THEN replay_exc(iter_events(log)) ELSE None

\* The result of materialize, had it left the predicate filter out.
materialized_unfiltered(latest, s, p) ==
  LET keys == {sp \in DOMAIN latest : sp[1] = s}
  IN [pp \in {sp[2] : sp \in keys} |-> latest[<<s, pp>>][2]]

\* The result of materialize(s, p) over an index.
materialized(latest, s, p) ==
  LET keys == {sp \in DOMAIN latest : sp[1] = s /\ (p = None \/ sp[2] = p)}
  IN [pp \in {sp[2] : sp \in keys} |-> latest[<<s, pp>>][2]]

\* JSONLStore.materialize(s, p).
materialize(i, s, p) ==
  LET w == warmed(stores[i].latest_by_sp, events[EVENTS_FILE])
  IN /\ stores[i].alive
     /\ stores' = [stores EXCEPT ![i].latest_by_sp = w, ![i].materialized = TRUE]
     /\ ret' = [call |-> "materialize", st |-> i, s |-> s, p |-> p,
                first |-> ~stores[i].materialized,
                exc |-> materialize_exc(stores[i].latest_by_sp, events[EVENTS_FILE]),
                val |-> IF materialize_exc(stores[i].latest_by_sp, events[EVENTS_FILE]) = None
                        THEN materialized(w, s, p) ELSE EmptyMap]
     /\ UNCHANGED <<DEFAULT_DATA_DIR, events, cardsFile, uuid, hist, tmpFile, saves, cardsJson>>

(* -------------------------------- query ------------------------------- *)

NoTime == [form |-> "none"]
Digits == {"0", "1", "2", "3", "4", "5", "6", "7", "8", "9"}
Letters == {"m", "h", "d", "w", "x", "M", "H", "D", "W", "T", "Z"}
lower(c) ==
  CASE c = "M" -> "m" [] c = "H" -> "h" [] c = "D" -> "d" [] c = "W" -> "w"
    [] c = "T" -> "t" [] c = "Z" -> "z" [] OTHER -> c
DigitVal(c) ==
  CASE c = "0" -> 0 [] c = "1" -> 1 [] c = "2" -> 2 [] c = "3" -> 3 [] c = "4" -> 4
    [] c = "5" -> 5 [] c = "6" -> 6 [] c = "7" -> 7 [] c = "8" -> 8 [] OTHER -> 9

\* int(num) of a string of digits.
RECURSIVE int_of(_, _)
int_of(ds, acc) ==
  IF ds = <<>> THEN acc ELSE int_of(Tail(ds), 10 * acc + DigitVal(Head(ds)))

\* The earliest instant a datetime holds (datetime.min), on the scale of the
\* texts of the model: an offset of eleven weeks reaches before it.
datetime_min == 0 - 100000

\* parse_relative(s) at the instant now (one instant is one minute), up to
\* the subtraction now - timedelta(...).  A time
\* text is NoTime (None or ""), [form |-> "iso", parses, t] (a text with a "T"
\* or a final "Z", which fromisoformat parses to t or rejects) or
\* [form |-> "rel", chars] (any other text, by its characters).  The result is
\* [some |-> FALSE] or [some |-> TRUE, t |-> instant].
parse_relative_unchecked(s, now) ==
  IF s.form = "none" THEN [some |-> FALSE]
  ELSE IF s.form = "iso"
  THEN IF s.parses THEN [some |-> TRUE, t |-> s.t] ELSE [some |-> FALSE]
  ELSE LET cs == s.chars
           isdigit(c) == c \in Digits
           num == SelectSeq(cs, isdigit)
           last == cs[Len(cs)]
           unit == IF last \in Letters THEN lower(last) ELSE "m"
           val == int_of(num, 0)
       IN IF cs[Len(cs)] = "Z" \/ \E k \in 1..Len(cs) : cs[k] = "T"
            THEN [some |-> FALSE]
          ELSE IF cs[1] # "-" THEN [some |-> FALSE]
          ELSE IF num = <<>> THEN [some |-> FALSE]
          ELSE IF unit = "m" THEN [some |-> TRUE, t |-> now - val]
          ELSE IF unit = "h" THEN [some |-> TRUE, t |-> now - 60 * val]
          ELSE IF unit = "d" THEN [some |-> TRUE, t |-> now - 1440 * val]
          ELSE IF unit = "w" THEN [some |-> TRUE, t |-> now - 10080 * val]
          ELSE [some |-> FALSE]

\* The exception parse_relative(s) raises, if any: the subtraction raises
\* OverflowError when its result is before datetime.min (nothing catches it).
parse_relative_exc(s, now) ==
  IF s.form = "rel" /\ parse_relative_unchecked(s, now).some
     /\ parse_relative_unchecked(s, now).t < datetime_min
  THEN "OverflowError" ELSE None

\* What parse_relative(s) returns (when it raises, nothing).
parse_relative(s, now) ==
  IF parse_relative_exc(s, now) # None THEN [some |-> FALSE]
  ELSE parse_relative_unchecked(s, now)

\* _dt_from_iso of a record's ts, and whether it returns (it raises
\* ValueError on a text that is not an ISO instant).
dt_from_iso(ts) == ts
iso_parses(ts) == ts # BadTs

\* The filters of query, had the time window left out its two bounds.
query_match_open_window(obj, q, since, until) ==
  LET ts == dt_from_iso(Get(obj, "ts", Epoch))
      tr == Get(obj, "triple", <<>>)
      tags == Get(obj, "meta", EmptyMeta).tags
      s == Get(q, "s", NoneSubject)
      p == Get(q, "p", None)
      o == Get(q, "o", None)
      tag == Get(q, "tag", None)
  IN /\ ~(since.some /\ ts <= since.t)
     /\ ~(until.some /\ ts >= until.t)
     /\ Len(tr) = 3
     /\ ~(s # NoneSubject /\ tr[1] # s)
     /\ ~(p # None /\ tr[2] # p)
     /\ ~(o # None /\ tr[3] # o)
     /\ (tag # None => \E k \in 1..Len(tags) : tags[k] = tag)

\* The filters of query on one decoded record, in the code's order.
query_match(obj, q, since, until) ==
  LET ts == dt_from_iso(Get(obj, "ts", Epoch))
      tr == Get(obj, "triple", <<>>)
      tags == Get(obj, "meta", EmptyMeta).tags
      s == Get(q, "s", NoneSubject)
      p == Get(q, "p", None)
      o == Get(q, "o", None)
      tag == Get(q, "tag", None)
  IN /\ ~(since.some /\ ts < since.t)
     /\ ~(until.some /\ ts > until.t)
     /\ Len(tr) = 3
     /\ ~(s # NoneSubject /\ tr[1] # s)
     /\ ~(p # None /\ tr[2] # p)
     /\ ~(o # None /\ tr[3] # o)
     /\ (tag # None => \E k \in 1..Len(tags) : tags[k] = tag)

\* The Event query and tail build from a decoded record: obj["id"],
\* obj["ts"], obj["actor"], obj["op"], the first three of the triple, and
\* `obj.get("meta") or {}`.
EventKeys == {"id", "ts", "actor", "op"}
event_of(obj) ==
  [id |-> obj.id, ts |-> obj.ts, actor |-> obj.actor, op |-> obj.op,
   triple |-> <<obj.triple[1], obj.triple[2], obj.triple[3]>>,
   meta |-> Get(obj, "meta", EmptyMeta)]

\* What the body of the loop of query raises on a record before its
\* filters run: AttributeError on a value without .get, ValueError on a ts
\* that _dt_from_iso rejects.
query_fault(obj) ==
  IF ~is_object(obj) THEN "AttributeError"
  ELSE IF ~iso_parses(Get(obj, "ts", Epoch)) THEN "ValueError"
  ELSE None

\* The scan of query: matches are collected in file order, and the scan
\* stops when a match makes len(out) >= limit, or at the record on which the
\* body raises (also a match without one of the keys Event is built from).
RECURSIVE query_scan(_, _, _, _, _, _)
query_scan(objs, q, since, until, limit, out) ==
  IF objs = <<>> THEN [out |-> out, exc |-> None]
  ELSE IF query_fault(Head(objs)) # None
       THEN [out |-> out, exc |-> query_fault(Head(objs))]
  ELSE IF ~query_match(Head(objs), q, since, until)
       THEN query_scan(Tail(objs), q, since, until, limit, out)
  ELSE IF ~(EventKeys \subseteq DOMAIN Head(objs))
       THEN [out |-> out, exc |-> "KeyError"]
       ELSE LET out2 == Append(out, event_of(Head(objs)))
            IN IF Len(out2) >= limit THEN [out |-> out2, exc |-> None]
               ELSE query_scan(Tail(objs), q, since, until, limit, out2)

\* list.sort(key = ts, reverse): stable; equal keys keep their order.
RECURSIVE sort_by_ts(_, _, _)
sort_by_ts(todo, reverse, done) ==
  IF todo = <<>> THEN done
  ELSE LET e == Head(todo)
           stays(x) == IF reverse THEN x.ts >= e.ts ELSE x.ts <= e.ts
           k == Len(SelectSeq(done, stays))
       IN sort_by_ts(Tail(todo), reverse,
                     SubSeq(done, 1, k) \o <<e>> \o SubSeq(done, k + 1, Len(done)))

\* The scan of query(q) on a log, at the instant now.
query_run(log, q, now) ==
  LET limit == Get(q, "limit", 100)
      since == parse_relative(Get(q, "since", NoTime), now)
      until == parse_relative(Get(q, "until", NoTime), now)
  IN query_scan(iter_events(log), q, since, until, limit, <<>>)

\* query(q) on a log, at the instant now: the exception it raises, if any
\* (that of parse_relative on since, or on until, or that of the scan), and
\* the list it returns (nothing when it raises).
query_outcome(log, q, now) ==
  LET newest_first == Get(q, "newest_first", TRUE)
      es == parse_relative_exc(Get(q, "since", NoTime), now)
      eu == parse_relative_exc(Get(q, "until", NoTime), now)
      r == query_run(log, q, now)
  IN IF es # None THEN [exc |-> es, val |-> <<>>]
     ELSE IF eu # None THEN [exc |-> eu, val |-> <<>>]
     ELSE IF r.exc # None THEN [exc |-> r.exc, val |-> <<>>]
     ELSE [exc |-> None, val |-> sort_by_ts(r.out, newest_first, <<>>)]

query_exc(log, q, now) == query_outcome(log, q, now).exc
query_result(log, q, now) == query_outcome(log, q, now).val

\* parse_relative(s) returns: the call was made with the text s at the
\* instant now.
parse ==
  /\ ret.call = "parse_relative.call"
  /\ ret' = [call |-> "parse_relative", s |-> ret.s, now |-> ret.now,
             exc |-> parse_relative_exc(ret.s, ret.now),
             val |-> parse_relative(ret.s, ret.now)]
  /\ UNCHANGED <<DEFAULT_DATA_DIR, events, cardsFile, stores, uuid, hist, tmpFile, saves, cardsJson>>

\* JSONLStore.query(q).
query(i, q, now) ==
  /\ stores[i].alive
  /\ LET o == query_outcome(events[EVENTS_FILE], q, now)
     IN ret' = [call |-> "query", st |-> i, q |-> q, now |-> now,
                exc |-> o.exc, val |-> o.val]
  /\ UNCHANGED <<DEFAULT_DATA_DIR, events, cardsFile, stores, uuid, hist, tmpFile, saves, cardsJson>>

(* -------------------------------- tail -------------------------------- *)

block == 4096

\* The offset of the first byte of line k; line k's newline is at
\* LineEnd(log, k); the file is LineStart(log, Len(log) + 1) bytes long.
RECURSIVE LineStart(_, _)
LineStart(log, k) == IF k <= 1 THEN 0 ELSE LineStart(log, k - 1) + log[k - 1].len + 1
LineEnd(log, k) == LineStart(log, k) + log[k].len
FileSize(log) == LineStart(log, Len(log) + 1)

\* len(lines) when the bytes from pos on have been read and split at "\n":
\* one entry per newline at or after pos (the last one is the empty text
\* after the final newline); nothing before the first read.
lines_len(log, pos) ==
  IF pos = FileSize(log) THEN 0
  ELSE Cardinality({k \in 1..Len(log) : LineEnd(log, k) >= pos})

\* The backward scan of tail: where it stops.
RECURSIVE tail_scan(_, _, _)
tail_scan(log, pos, n) ==
  IF pos > 0 /\ lines_len(log, pos) < n
  THEN tail_scan(log, pos - (IF block < pos THEN block ELSE pos), n)
  ELSE pos

\* The non-empty lines tail holds after the scan: the lines that begin after
\* pos and, before them, buf: the bytes from pos to the next newline.
tail_lines(log, n) ==
  LET size == FileSize(log)
      pos == tail_scan(log, size, n)
  IN IF pos = size THEN <<>>
     ELSE LET j == CHOOSE k \in 1..Len(log) : LineStart(log, k) <= pos /\ pos <= LineEnd(log, k)
              buflen == LineEnd(log, j) - pos
              buf == IF buflen = 0 THEN <<>>
                     ELSE IF pos = LineStart(log, j) THEN <<log[j]>>
                     ELSE <<[kind |-> "partial", obj |-> log[j].obj, len |-> buflen]>>
          IN buf \o SubSeq(log, j + 1, Len(log))

\* The result of tail(n): the last n lines held, those from which an Event
\* is built without an exception (the try block skips the others: a line
\* that is not JSON, a value without .get, a missing key, a triple shorter
\* than three; the ts is not parsed).
tail_result(log, n) ==
  LET lines == tail_lines(log, n)
      from == IF Len(lines) - n + 1 > 1 THEN Len(lines) - n + 1 ELSE 1
      last == SubSeq(lines, from, Len(lines))
      ok(ln) == /\ ln.kind = "event"
                /\ EventKeys \subseteq DOMAIN ln.obj
                /\ Len(Get(ln.obj, "triple", <<>>)) >= 3
      good == SelectSeq(last, ok)
  IN [k \in 1..Len(good) |-> event_of(good[k].obj)]

\* JSONLStore.tail(n).
tail(i, n) ==
  /\ stores[i].alive
  /\ ret' = [call |-> "tail", st |-> i, n |-> n,
             val |-> tail_result(events[EVENTS_FILE], n)]
  /\ UNCHANGED <<DEFAULT_DATA_DIR, events, cardsFile, stores, uuid, hist, tmpFile, saves, cardsJson>>

(* -------------------------------- cards ------------------------------- *)

\* _normalize_card_id, had it left the id as given.
normalize_card_id_as_given(card_id) == card_id

\* _normalize_card_id, had it put the prefix before every id.
normalize_card_id_always_prefixing(card_id) == <<"card:">> \o card_id

\* _normalize_card_id.
normalize_card_id(card_id) ==
  IF Len(card_id) >= 1 /\ card_id[1] = "card:" THEN card_id ELSE <<"card:">> \o card_id

\* str(v): the text of a property value ("int:n" names the integer n).
str(v) ==
  CASE v = "int:0" -> "0" [] v = "int:1" -> "1" [] v = "int:2" -> "2"
    [] v = "int:3" -> "3" [] v = "int:1955" -> "1955"
    [] OTHER -> v

\* update, had it replaced the stored properties by the given ones.
RECURSIVE update_replacing(_, _)
update_replacing(cur, props) ==
  IF props = <<>> THEN EmptyMap
  ELSE LET rest == update_replacing(cur, Tail(props))
       IN IF Head(props)[1] \in DOMAIN rest THEN rest
          ELSE Put(rest, Head(props)[1], Head(props)[2])

\* dict.update: props is the sequence of the (key, value) items of a dict.
RECURSIVE update(_, _)
update(cur, props) ==
  IF props = <<>> THEN cur
  ELSE update(Put(cur, Head(props)[1], Head(props)[2]), Tail(props))

\* The events of upsert_card, had their subject been the id as given.
card_event_args_on_given_id(card_id, card_key, props, now) ==
  [k \in 1..Len(props) |->
     [actor |-> "CardTool", op |-> "set", ts |-> now,
      triple |-> <<card_id, props[k][1], str(props[k][2])>>,
      meta |-> [tags |-> <<"card">>, card_id |-> card_id, pad |-> 200]]]

\* The Event.new arguments upsert_card builds, one per item of props.
card_event_args(card_id, card_key, props, now) ==
  [k \in 1..Len(props) |->
     [actor |-> "CardTool", op |-> "set", ts |-> now,
      triple |-> <<card_key, props[k][1], str(props[k][2])>>,
      meta |-> [tags |-> <<"card">>, card_id |-> card_id, pad |-> 200]]]

\* JSONLStore.upsert_card(card_id, props): merge, save the projection to
\* CARDS_INDEX_FILE (temporary file, then os.replace), append the events.
upsert_card(i, card_id, props, now) ==
  LET card_key == normalize_card_id(card_id)
      cur == IF card_key \in DOMAIN stores[i].cards THEN stores[i].cards[card_key]
             ELSE EmptyMap
      cards2 == Put(stores[i].cards, card_key, update(cur, props))
      evs == NewEvents(card_event_args(card_id, card_key, props, now), uuid)
      r == append_loop(evs, events[EVENTS_FILE], stores[i].latest_by_sp)
  IN /\ stores[i].alive
     /\ cardsFile' = [cardsFile EXCEPT ![CARDS_INDEX_FILE] = [st |-> "ok", doc |-> cards2]]
     /\ events' = [events EXCEPT ![EVENTS_FILE] = r.log]
     /\ stores' = [stores EXCEPT ![i].cards = cards2, ![i].latest_by_sp = r.latest]
     /\ uuid' = uuid + Len(props)
     /\ ret' = [call |-> "upsert_card", st |-> i, val |-> <<>>]
     /\ hist' = Append(hist, [call |-> "upsert_card", st |-> i, dir |-> EVENTS_FILE,
                              evs |-> evs, id |-> card_id, props |-> props])
     /\ tmpFile' = [tmpFile EXCEPT ![CARDS_INDEX_FILE] = NoFile]
     /\ UNCHANGED <<DEFAULT_DATA_DIR, saves, cardsJson>>

(* ------------------- upsert_card, one step at a time ------------------ *)

\* The content of a file being written is "partial" (a beginning of the text
\* of doc, possibly none of it: not a JSON document), "ok" (the whole text of
\* doc) or "garbled" (bytes of several writers).  An open file follows its
\* inode: at is "tmp" or "index" (the path that names the inode now) or
\* "gone" (no path does).

\* _save_cards_index, had it written the projection file in place.
save_target_in_place == "index"

\* The file _save_cards_index opens for writing: CARDS_INDEX_FILE + ".tmp".
save_target == "tmp"

InFlight == {"opened", "written", "closed", "replaced"}
Garbled == [st |-> "garbled", doc |-> EmptyMap]

FileAt(at, d) ==
  IF at = "tmp" THEN tmpFile[d] ELSE IF at = "index" THEN cardsFile[d] ELSE NoFile

\* The files after content c is put where the open file (at, d) is.
FilesWith(at, d, c) ==
  [tmp |-> IF at = "tmp" THEN [tmpFile EXCEPT ![d] = c] ELSE tmpFile,
   index |-> IF at = "index" THEN [cardsFile EXCEPT ![d] = c] ELSE cardsFile]

\* What a write through the open file of store i can leave in the file, own
\* being what the writer alone would leave.  A writer whose file was
\* truncated under it after it wrote continues at its old offset; a writer
\* that finds bytes of another writer may or may not cover them.
write_outcomes(i, own) ==
  LET sv == saves[i]
      c == FileAt(sv.at, sv.dir)
  IN IF sv.stale /\ sv.pc = "written" THEN {Garbled}
     ELSE IF c.st = "partial" /\ c.doc \in {EmptyMap, sv.after} THEN {own}
     ELSE {own, Garbled}

\* upsert_card up to open(tmp, "w"): the merge into _cards, then the file is
\* created or truncated (open files on it stay open on the truncated file).
upsert_begin(i, card_id, props, now) ==
  LET card_key == normalize_card_id(card_id)
      cur == IF card_key \in DOMAIN stores[i].cards THEN stores[i].cards[card_key]
             ELSE EmptyMap
      cards2 == Put(stores[i].cards, card_key, update(cur, props))
      d == CARDS_INDEX_FILE
      f == FilesWith(save_target, d, [st |-> "partial", doc |-> EmptyMap])
  IN /\ stores[i].alive
     /\ saves[i].pc \notin InFlight
     /\ stores' = [stores EXCEPT ![i].cards = cards2]
     /\ tmpFile' = f.tmp
     /\ cardsFile' = f.index
     /\ saves' = [j \in StoreIds |->
          IF j = i
          THEN [pc |-> "opened", dir |-> d, at |-> save_target, stale |-> FALSE,
                before |-> load_cards_index(cardsFile[d]), after |-> cards2,
                id |-> card_id, props |-> props, now |-> now,
                cards0 |-> stores[i].cards, log0 |-> Len(events[EVENTS_FILE])]
          ELSE IF saves[j].pc \in {"opened", "written"} /\ saves[j].dir = d
                  /\ saves[j].at = save_target
          THEN [saves[j] EXCEPT !.stale = TRUE]
          ELSE saves[j]]
     /\ ret' = [call |-> "upsert_card.open", st |-> i, val |-> <<>>]
     /\ UNCHANGED <<DEFAULT_DATA_DIR, events, uuid, hist, cardsJson>>

\* json.dump, a part of the text reaching the file (a flush of the buffer).
save_write(i) ==
  /\ stores[i].alive
  /\ saves[i].pc = "opened"
  /\ \E c \in write_outcomes(i, [st |-> "partial", doc |-> saves[i].after]) :
       LET f == FilesWith(saves[i].at, saves[i].dir, c)
       IN tmpFile' = f.tmp /\ cardsFile' = f.index
  /\ saves' = [saves EXCEPT ![i].pc = "written"]
  /\ ret' = [call |-> "upsert_card.write", st |-> i, val |-> <<>>]
  /\ UNCHANGED <<DEFAULT_DATA_DIR, events, stores, uuid, hist, cardsJson>>

\* The end of the with block: the rest of the text is written, the file closed.
save_close(i) ==
  /\ stores[i].alive
  /\ saves[i].pc \in {"opened", "written"}
  /\ \E c \in write_outcomes(i, [st |-> "ok", doc |-> saves[i].after]) :
       LET f == FilesWith(saves[i].at, saves[i].dir, c)
       IN tmpFile' = f.tmp /\ cardsFile' = f.index
  /\ saves' = [saves EXCEPT ![i].pc = "closed", ![i].at = "none"]
  /\ ret' = [call |-> "upsert_card.close", st |-> i, val |-> <<>>]
  /\ UNCHANGED <<DEFAULT_DATA_DIR, events, stores, uuid, hist, cardsJson>>

\* os.replace(tmp, CARDS_INDEX_FILE): tmp is the path computed before the
\* open, CARDS_INDEX_FILE is read now.  It raises when tmp does not exist.
save_replace(i) ==
  LET src == saves[i].dir
      dst == CARDS_INDEX_FILE
  IN /\ stores[i].alive
     /\ saves[i].pc = "closed"
     /\ IF tmpFile[src].st = "missing"
        THEN /\ saves' = [saves EXCEPT ![i].pc = "failed"]
             /\ UNCHANGED <<tmpFile, cardsFile>>
        ELSE /\ cardsFile' = [cardsFile EXCEPT ![dst] = tmpFile[src]]
             /\ tmpFile' = [tmpFile EXCEPT ![src] = NoFile]
             /\ saves' = [j \in StoreIds |->
                  IF j = i THEN [saves[i] EXCEPT !.pc = "replaced"]
                  ELSE IF saves[j].pc \in {"opened", "written"} /\ saves[j].at = "tmp"
                          /\ saves[j].dir = src
                  THEN [saves[j] EXCEPT !.at = "index", !.dir = dst]
                  ELSE IF saves[j].pc \in {"opened", "written"} /\ saves[j].at = "index"
                          /\ saves[j].dir = dst
                  THEN [saves[j] EXCEPT !.at = "gone"]
                  ELSE saves[j]]
     /\ ret' = [call |-> "upsert_card.replace", st |-> i, val |-> <<>>]
     /\ UNCHANGED <<DEFAULT_DATA_DIR, events, stores, uuid, hist, cardsJson>>

\* The rest of upsert_card: the events are built and appended.
upsert_finish(i) ==
  LET sv == saves[i]
      card_key == normalize_card_id(sv.id)
      evs == NewEvents(card_event_args(sv.id, card_key, sv.props, sv.now), uuid)
      r == append_loop(evs, events[EVENTS_FILE], stores[i].latest_by_sp)
  IN /\ stores[i].alive
     /\ sv.pc = "replaced"
     /\ events' = [events EXCEPT ![EVENTS_FILE] = r.log]
     /\ stores' = [stores EXCEPT ![i].latest_by_sp = r.latest]
     /\ uuid' = uuid + Len(sv.props)
     /\ saves' = [saves EXCEPT ![i].pc = "idle"]
     /\ ret' = [call |-> "upsert_card", st |-> i, val |-> <<>>]
     /\ hist' = Append(hist, [call |-> "upsert_card", st |-> i, dir |-> EVENTS_FILE,
                              evs |-> evs, id |-> sv.id, props |-> sv.props])
     /\ UNCHANGED <<DEFAULT_DATA_DIR, cardsFile, tmpFile, cardsJson>>

\* An I/O failure in the write, the close or the replace: the exception
\* leaves upsert_card; the files stay as they are.
save_fail(i) ==
  /\ stores[i].alive
  /\ saves[i].pc \in {"opened", "written", "closed"}
  /\ saves' = [saves EXCEPT ![i].pc = "failed", ![i].at = "none"]
  /\ ret' = [call |-> "upsert_card.raise", st |-> i, val |-> <<>>]
  /\ UNCHANGED <<DEFAULT_DATA_DIR, events, cardsFile, tmpFile, stores, uuid, hist, cardsJson>>

\* The process dies: every store object is lost with the call it was in, the
\* files stay as they are; a new process imports the module afresh.
Crash ==
  /\ \E i \in StoreIds : stores[i].alive
  /\ DEFAULT_DATA_DIR' = "data"
  /\ stores' = [i \in StoreIds |-> [stores[i] EXCEPT !.alive = FALSE]]
  /\ saves' = [i \in StoreIds |->
       IF saves[i].pc \in InFlight
       THEN [saves[i] EXCEPT !.pc = "crashed", !.at = "none"]
       ELSE saves[i]]
  /\ ret' = NoRet
  /\ UNCHANGED <<events, cardsFile, tmpFile, uuid, hist, cardsJson>>

\* read_card, had it answered from the log (the latest Set/Assert values).
read_card_from_log(cards, card_id) ==
  LET key == IF Len(card_id) >= 1 /\ card_id[1] = "card:" THEN card_id
             ELSE <<"card:">> \o card_id
      latest == replay(iter_events(events[EVENTS_FILE]), EmptyMap)
      keys == {sp \in DOMAIN latest : sp[1] = key}
  IN [pp \in {sp[2] : sp \in keys} |-> latest[<<key, pp>>][2]]

\* The result of read_card(card_id).
read_card_result(cards, card_id) ==
  LET key == normalize_card_id(card_id)
  IN IF key \in DOMAIN cards THEN cards[key] ELSE EmptyMap

\* read_card, had it looked the card up with setdefault.
read_card_inserting(i, card_id) ==
  /\ stores[i].alive
  /\ ret' = [call |-> "read_card", st |-> i, id |-> card_id,
             val |-> read_card_result(stores[i].cards, card_id)]
  /\ stores' = [stores EXCEPT ![i].cards =
       IF normalize_card_id(card_id) \in DOMAIN @ THEN @
       ELSE Put(@, normalize_card_id(card_id), EmptyMap)]
  /\ UNCHANGED <<DEFAULT_DATA_DIR, events, cardsFile, uuid, hist, tmpFile, saves, cardsJson>>

\* JSONLStore.read_card(card_id).
read_card(i, card_id) ==
  /\ stores[i].alive
  /\ ret' = [call |-> "read_card", st |-> i, id |-> card_id,
             val |-> read_card_result(stores[i].cards, card_id)]
  /\ UNCHANGED <<DEFAULT_DATA_DIR, events, cardsFile, stores, uuid, hist, tmpFile, saves, cardsJson>>

\* The text of a card key: its tokens, concatenated.
RECURSIVE join(_)
join(tokens) == IF tokens = <<>> THEN "" ELSE Head(tokens) \o join(Tail(tokens))

\* One entry of list_cards: {"id": cid, **props}; a key of props named "id"
\* comes later in the literal and wins.
list_entry(cid, props) ==
  [k \in {"id"} \cup DOMAIN props |-> IF k \in DOMAIN props THEN props[k] ELSE join(cid)]

\* The result of list_cards(): one entry per key of _cards, here under
\* that key.
list_cards_result(cards) == [cid \in DOMAIN cards |-> list_entry(cid, cards[cid])]

\* JSONLStore.list_cards().
list_cards(i) ==
  /\ stores[i].alive
  /\ ret' = [call |-> "list_cards", st |-> i, val |-> list_cards_result(stores[i].cards)]
  /\ UNCHANGED <<DEFAULT_DATA_DIR, events, cardsFile, stores, uuid, hist, tmpFile, saves, cardsJson>>

\* JSONLStore.export_cards().
export_cards(i) ==
  /\ stores[i].alive
  /\ ret' = [call |-> "export_cards", st |-> i, val |-> stores[i].cards]
  /\ UNCHANGED <<DEFAULT_DATA_DIR, events, cardsFile, stores, uuid, hist, tmpFile, saves, cardsJson>>

(* ----------------------- BrainstormingBoard tools ---------------------- *)

\* DUAL_WRITE, had the environment set it to "false".
DUAL_WRITE_off == FALSE

\* DUAL_WRITE: "true" unless the environment says otherwise.
DUAL_WRITE == TRUE

\* The store _STORE_SINGLETON names once get_store() has constructed it.
Singleton == "A"

\* BaseCardTool._load_cards: the document of CARDS_FILE, or {} when there
\* is no such file.
load_cards(file) == IF file.st = "missing" THEN EmptyMap ELSE file.doc

\* The key json.dump writes for the integer key n, and the integer n as a
\* property value.
json_key(n) == ToString(n)
int(n) == "int:" \o ToString(n)

\* The dict literal of the tools, as the sequence of its items.
card_data(id, name, category, description) ==
  <<<<"id", id>>, <<"name", name>>, <<"category", category>>,
    <<"description", description>>>>

\* _state_write_card(card_id, props): get_store() constructs the singleton
\* on the module-level paths if there is none, then upsert_card runs on it.
state_write_card(card_id, props, now) ==
  IF DUAL_WRITE
  THEN LET i == Singleton
           fresh == ~stores[i].alive
           cf == IF fresh THEN ensure_dirs(cardsFile[CARDS_INDEX_FILE])
                 ELSE cardsFile[CARDS_INDEX_FILE]
           st == IF fresh
                 THEN [alive |-> TRUE, dir |-> DEFAULT_DATA_DIR,
                       loaded |-> load_cards_index(cf),
                       log0 |-> Len(events[EVENTS_FILE]), materialized |-> FALSE,
                       latest_by_sp |-> EmptyMap, cards |-> load_cards_index(cf)]
                 ELSE stores[i]
           card_key == normalize_card_id(card_id)
           cur == IF card_key \in DOMAIN st.cards THEN st.cards[card_key] ELSE EmptyMap
           cards2 == Put(st.cards, card_key, update(cur, props))
           evs == NewEvents(card_event_args(card_id, card_key, props, now), uuid)
           r == append_loop(evs, ensure_events_file(events[EVENTS_FILE]), st.latest_by_sp)
           made == IF fresh
                   THEN <<[call |-> "new", st |-> i, dir |-> DEFAULT_DATA_DIR,
                           evs |-> <<>>, id |-> NoneSubject, props |-> <<>>]>>
                   ELSE <<>>
       IN /\ cardsFile' = [cardsFile EXCEPT ![CARDS_INDEX_FILE] = [st |-> "ok", doc |-> cards2]]
          /\ events' = [events EXCEPT ![EVENTS_FILE] = r.log]
          /\ stores' = [stores EXCEPT ![i] =
                [st EXCEPT !.cards = cards2, !.latest_by_sp = r.latest]]
          /\ uuid' = uuid + Len(props)
          /\ hist' = hist \o made \o
                <<[call |-> "upsert_card", st |-> i, dir |-> EVENTS_FILE,
                   evs |-> evs, id |-> card_id, props |-> props]>>
          /\ tmpFile' = [tmpFile EXCEPT ![CARDS_INDEX_FILE] = NoFile]
          /\ UNCHANGED <<DEFAULT_DATA_DIR, saves>>
  ELSE UNCHANGED <<DEFAULT_DATA_DIR, events, cardsFile, stores, uuid, hist, tmpFile, saves>>

\* CreateCardTool._run(name, category, description): the card is stored in
\* CARDS_FILE under the number of cards there, then written to the store.
CreateCardTool_run(name, category, description, now) ==
  LET cards == load_cards(cardsJson)
      next_id == Cardinality(DOMAIN cards)
      data == card_data(int(next_id), name, category, description)
  IN /\ cardsJson' = [st |-> "ok",
                      doc |-> Put(cards, json_key(next_id), update(EmptyMap, data))]
     /\ state_write_card(<<json_key(next_id)>>, data, now)
     /\ ret' = [call |-> "CreateCardTool", st |-> None, exc |-> None,
                id |-> <<json_key(next_id)>>, val |-> next_id]

\* UpdateCardTool._run(id, name, category, description): ValueError when
\* CARDS_FILE has no card id; else the card is replaced there and written to
\* the store.
UpdateCardTool_run(id, name, category, description, now) ==
  LET cards == load_cards(cardsJson)
      data == card_data(id, name, category, description)
  IN IF id \notin DOMAIN cards
     THEN /\ ret' = [call |-> "UpdateCardTool", st |-> None, exc |-> "ValueError",
                     id |-> <<id>>, val |-> <<>>]
          /\ UNCHANGED <<DEFAULT_DATA_DIR, events, cardsFile, stores, uuid, hist,
                         tmpFile, saves, cardsJson>>
     ELSE /\ cardsJson' = [st |-> "ok", doc |-> Put(cards, id, update(EmptyMap, data))]
          /\ state_write_card(<<id>>, data, now)
          /\ ret' = [call |-> "UpdateCardTool", st |-> None, exc |-> None,
                     id |-> <<id>>, val |-> <<>>]

\* get_store(): the singleton, constructed on the module-level paths by the
\* call that finds none.
get_store ==
  LET i == Singleton
      cf == ensure_dirs(cardsFile[CARDS_INDEX_FILE])
  IN IF stores[i].alive
     THEN UNCHANGED <<DEFAULT_DATA_DIR, events, cardsFile, stores, hist>>
     ELSE /\ cardsFile' = [cardsFile EXCEPT ![CARDS_INDEX_FILE] = cf]
          /\ events' = [events EXCEPT ![EVENTS_FILE] = ensure_events_file(events[EVENTS_FILE])]
          /\ stores' = [stores EXCEPT ![i] =
                [alive |-> TRUE, dir |-> DEFAULT_DATA_DIR,
                 loaded |-> load_cards_index(cf),
                 log0 |-> Len(events[EVENTS_FILE]), materialized |-> FALSE,
                 latest_by_sp |-> EmptyMap, cards |-> load_cards_index(cf)]]
          /\ hist' = Append(hist, [call |-> "new", st |-> i, dir |-> DEFAULT_DATA_DIR,
                                   evs |-> <<>>, id |-> NoneSubject, props |-> <<>>])
          /\ UNCHANGED DEFAULT_DATA_DIR

\* The card map of the store get_store() returns.
store_cards ==
  IF stores[Singleton].alive THEN stores[Singleton].cards
  ELSE load_cards_index(ensure_dirs(cardsFile[CARDS_INDEX_FILE]))

\* DeleteCardTool._run(card_id): ValueError when CARDS_FILE has no card
\* card_id; else the card is removed from CARDS_FILE, and from nowhere else.
DeleteCardTool_run(card_id) ==
  LET cards == load_cards(cardsJson)
  IN IF card_id \notin DOMAIN cards
     THEN /\ ret' = [call |-> "DeleteCardTool", st |-> None, exc |-> "ValueError",
                     id |-> <<card_id>>, val |-> <<>>]
          /\ UNCHANGED <<DEFAULT_DATA_DIR, events, cardsFile, stores, uuid, hist,
                         tmpFile, saves, cardsJson>>
     ELSE /\ cardsJson' = [st |-> "ok", doc |-> Pop(cards, card_id)]
          /\ ret' = [call |-> "DeleteCardTool", st |-> None, exc |-> None,
                     id |-> <<card_id>>, val |-> <<>>]
          /\ hist' = Append(hist, [call |-> "DeleteCardTool", st |-> None, dir |-> None,
                                   evs |-> <<>>, id |-> <<card_id>>, props |-> <<>>])
          /\ UNCHANGED <<DEFAULT_DATA_DIR, events, cardsFile, stores, uuid, tmpFile, saves>>

\* ReadCardTool._run(card_id) under USE_STATE_FOR_READS = use_state: the
\* card of the store when it has one there (a card with no property counts
\* as none), else the card of CARDS_FILE, ValueError when it has none.
ReadCardTool_run(card_id, use_state) ==
  LET state_card == IF use_state THEN read_card_result(store_cards, <<card_id>>)
                    ELSE EmptyMap
      cards == load_cards(cardsJson)
  IN /\ IF use_state THEN get_store
        ELSE UNCHANGED <<DEFAULT_DATA_DIR, events, cardsFile, stores, hist>>
     /\ ret' = IF state_card # EmptyMap
               THEN [call |-> "ReadCardTool", st |-> None, exc |-> None,
                     id |-> <<card_id>>, use_state |-> use_state, val |-> state_card]
               ELSE IF card_id \notin DOMAIN cards
               THEN [call |-> "ReadCardTool", st |-> None, exc |-> "ValueError",
                     id |-> <<card_id>>, use_state |-> use_state, val |-> EmptyMap]
               ELSE [call |-> "ReadCardTool", st |-> None, exc |-> None,
                     id |-> <<card_id>>, use_state |-> use_state, val |-> cards[card_id]]
     /\ UNCHANGED <<uuid, tmpFile, saves, cardsJson>>

\* ListCardTool._run() under USE_STATE_FOR_READS = use_state: the (id, name)
\* of every card of the store, or of every card of CARDS_FILE; here each
\* pair stands under the key of the card it is for.
ListCardTool_run(use_state) ==
  LET entries == list_cards_result(store_cards)
      cards == load_cards(cardsJson)
      listed == IF use_state
                THEN [cid \in DOMAIN entries |->
                        <<entries[cid]["id"], Get(entries[cid], "name", None)>>]
                ELSE [cid \in {normalize_card_id(<<k>>) : k \in DOMAIN cards} |->
                        <<cid[2], cards[cid[2]].name>>]
  IN /\ IF use_state THEN get_store
        ELSE UNCHANGED <<DEFAULT_DATA_DIR, events, cardsFile, stores, hist>>
     /\ ret' = [call |-> "ListCardTool", st |-> None, exc |-> None,
                use_state |-> use_state, val |-> listed]
     /\ UNCHANGED <<uuid, tmpFile, saves, cardsJson>>

(* ------------------------------ initial ------------------------------- *)

Init ==
  /\ DEFAULT_DATA_DIR = "data"
  /\ events = [d \in Dirs |-> <<>>]
  /\ cardsFile = [d \in Dirs |-> [st |-> "missing", doc |-> EmptyMap]]
  /\ stores = [i \in StoreIds |->
       [alive |-> FALSE, dir |-> None, loaded |-> EmptyMap,
        log0 |-> 0, materialized |-> FALSE,
        latest_by_sp |-> EmptyMap, cards |-> EmptyMap]]
  /\ uuid = 0
  /\ ret = NoRet
  /\ hist = <<>>
  /\ tmpFile = [d \in Dirs |-> NoFile]
  /\ saves = [i \in StoreIds |-> NoSave]
  /\ cardsJson = NoFile

(* --------------------------- specifications --------------------------- *)

Args(actor, op, triple, ts, tags, pad) ==
  [actor |-> actor, op |-> op, triple |-> triple, ts |-> ts,
   meta |-> [tags |-> tags, pad |-> pad]]

S1 == <<"s1">>
S2 == <<"s2">>
Area51 == <<"card:", "area51">>

\* The log has room for n more lines.
Room(n) == Len(events[EVENTS_FILE]) + n <= MaxLog
\* The logs together have room for n more lines.
TotalRoom(n) == uuid + n <= MaxLog

\* Materialization: two stores on one directory, the second constructed at
\* any moment; events over two subjects, the later value of (s1, p) carrying
\* the earlier timestamp.
MatArgs ==
  {Args("Scribe", "set", <<S1, "p", "v1">>, 1, <<>>, 200),
   Args("Scribe", "assert", <<S1, "p", "v2">>, 0, <<>>, 200),
   Args("Scribe", "set", <<S2, "q", "v1">>, 0, <<>>, 200),
   Args("Scribe", "retract", <<S1, "p", "v1">>, 1, <<>>, 200)}

NextMat ==
  \/ \E i \in StoreIds : Construct(i, "d1")
  \/ \E i \in StoreIds, a \in MatArgs : Room(1) /\ append(i, <<a>>)
  \/ \E i \in StoreIds, p \in {None, "p"} : materialize(i, S1, p)

SpecMat == Init /\ [][NextMat]_vars

\* Queries: one store; events with any timestamp, tagged or not.
QueryArgs ==
  {Args("TestAgent", "set", <<S1, "index", "v1">>, ts, tags, 200) :
     ts \in TsSet, tags \in {<<"timetest">>, <<>>}}

Queries ==
  {[tag |-> "timetest", limit |-> l, newest_first |-> nf] :
     l \in 0..MaxLimit, nf \in BOOLEAN}
  \cup {[limit |-> l] : l \in 0..MaxLimit}
  \cup {[s |-> S1, tag |-> "timetest"], [s |-> S2], [newest_first |-> FALSE]}

NextQuery ==
  \/ Construct("A", "d1")
  \/ \E a \in QueryArgs : Room(1) /\ append("A", <<a>>)
  \/ \E q \in Queries : query("A", q, MaxTs)

SpecQuery == Init /\ [][NextQuery]_vars

\* Tail: one store on a directory whose log exists already; a line is a
\* short record, a record longer than a block, or a line that is not JSON.
TailShapes == {"short", "long", "bad"}

TailLine(shape, k) ==
  IF shape = "bad" THEN GarbageLine(7)
  ELSE json_line(to_dict(Event_new(k,
         Args("TestAgent", "set", <<S1, "index", "v1">>, 0, <<>>,
              IF shape = "long" THEN 5000 ELSE 200))))

TailLogs ==
  UNION {{[k \in 1..n |-> TailLine(f[k], k)] : f \in [1..n -> TailShapes]} : n \in 0..MaxLog}

InitTail ==
  /\ DEFAULT_DATA_DIR = "data"
  /\ \E log \in TailLogs :
       /\ events = [d \in Dirs |-> IF d = "d1" THEN log ELSE <<>>]
       /\ uuid = Len(log)
  /\ cardsFile = [d \in Dirs |-> [st |-> "missing", doc |-> EmptyMap]]
  /\ stores = [i \in StoreIds |->
       [alive |-> FALSE, dir |-> None, loaded |-> EmptyMap,
        log0 |-> 0, materialized |-> FALSE,
        latest_by_sp |-> EmptyMap, cards |-> EmptyMap]]
  /\ ret = NoRet
  /\ hist = <<>>
  /\ tmpFile = [d \in Dirs |-> NoFile]
  /\ saves = [i \in StoreIds |-> NoSave]
  /\ cardsJson = NoFile

NextTail ==
  \/ Construct("A", "d1")
  \/ \E pad \in {200, 5000} :
       Room(1) /\ append("A", <<Args("TestAgent", "set", <<S1, "index", "v1">>, 0, <<>>, pad)>>)
  \/ \E n \in 0..MaxLimit : tail("A", n)

SpecTail == InitTail /\ [][NextTail]_vars

\* Cards: two stores on one directory (the second loads what the first
\* saved); upserts of one card under both spellings of its id, and direct
\* appends on the card's subject.
AreaArgs(p, v) == Args("Scribe", "set", <<Area51, p, v>>, 0, <<"card">>, 200)
AreaBatch ==
  <<AreaArgs("name", "Area 51"), AreaArgs("category", "Location"),
    AreaArgs("description", "...")>>
Year1955 == << <<"year_established", "1955">> >>
CardProps ==
  {Year1955, << <<"name", "Groom Lake">>, <<"year_established", "int:1955">> >>}
CardIds == {<<"area51">>, Area51}
CardRoom(n) == Len(events[EVENTS_FILE]) + n <= MaxCardLog

NextCards ==
  \/ \E i \in StoreIds : Construct(i, "d1")
  \/ \E i \in StoreIds : CardRoom(Len(AreaBatch)) /\ append(i, AreaBatch)
  \/ \E i \in StoreIds, c \in CardIds, props \in CardProps :
       CardRoom(Len(props)) /\ upsert_card(i, c, props, 1)
  \/ \E i \in StoreIds : read_card(i, <<"area51">>)
  \/ \E i \in StoreIds : list_cards(i)
  \/ \E i \in StoreIds : export_cards(i)
  \/ \E i \in StoreIds : materialize(i, Area51, None)

SpecCards == Init /\ [][NextCards]_vars

\* Listing: the cards CreateCardTool writes (their property map carries a
\* key named "id") next to cards without such a key, under both spellings
\* of the card id.
Card0 == <<"card:", "0">>
ListProps ==
  {<< <<"id", "int:0">>, <<"name", "N">> >>, << <<"name", "N">> >>,
   << <<"category", "C">> >>}
ListIds == {<<"0">>, Card0, <<"1">>}

NextList ==
  \/ \E i \in StoreIds : Construct(i, "d1")
  \/ \E i \in StoreIds, c \in ListIds, props \in ListProps :
       Room(Len(props)) /\ upsert_card(i, c, props, 1)
  \/ \E i \in StoreIds : list_cards(i)

SpecList == Init /\ [][NextList]_vars

\* Interrupted saves: one writer (store A) whose upsert_card runs one step
\* at a time and may fail or die with its process at any step; store B only
\* reads; after a crash the stores are constructed anew.
HistRoom == Len(hist) < MaxHist

NextAtomic ==
  \/ \E i \in StoreIds : HistRoom /\ Construct(i, "d1")
  \/ \E props \in CardProps :
       HistRoom /\ CardRoom(Len(props)) /\ upsert_begin("A", <<"area51">>, props, 1)
  \/ save_write("A")
  \/ save_close("A")
  \/ save_replace("A")
  \/ upsert_finish("A")
  \/ save_fail("A")
  \/ Crash
  \/ \E i \in StoreIds : read_card(i, <<"area51">>)

SpecAtomic == Init /\ [][NextAtomic]_vars

\* Concurrent saves: two stores on one directory, each running upsert_card
\* one step at a time, the steps of the two interleaved in any order.  No
\* failure is injected and no process dies.
ConcProps == {<< <<"name", "X">> >>, << <<"name", "Y">> >>}

NextConc ==
  \/ \E i \in StoreIds : Construct(i, "d1")
  \/ \E i \in StoreIds, props \in ConcProps :
       uuid < MaxConc /\ upsert_begin(i, <<"x">>, props, 1)
  \/ \E i \in StoreIds : save_write(i)
  \/ \E i \in StoreIds : save_close(i)
  \/ \E i \in StoreIds : save_replace(i)
  \/ \E i \in StoreIds : upsert_finish(i)

SpecConc == Init /\ [][NextConc]_vars

\* Appending: batches of no, one or two events of any op, through two
\* stores on one directory.
AppendArgs ==
  {Args("Scribe", op, <<S1, "p", "v1">>, 0, <<>>, 200) : op \in Ops}
Batches ==
  {<<>>} \cup {<<a>> : a \in AppendArgs} \cup {<<a, b>> : a, b \in AppendArgs}

NextAppend ==
  \/ \E i \in StoreIds : Construct(i, "d1")
  \/ \E i \in StoreIds, b \in Batches :
       Room(Len(b)) /\ Len(hist) < MaxHist /\ append(i, b)
  \/ \E i \in StoreIds : tail(i, MaxLimit)

SpecAppend == Init /\ [][NextAppend]_vars

\* Filters: one store; events that differ in subject, predicate, object,
\* tags and timestamp; queries with every filter, alone and combined, with
\* absolute and relative time bounds, with and without a limit.
FilterArgs ==
  {Args("TestAgent", "set", <<S1, "index", "v1">>, 0, <<"timetest">>, 200),
   Args("TestAgent", "set", <<S1, "index", "v2">>, 1, <<>>, 200),
   Args("TestAgent", "assert", <<S2, "index", "v1">>, MaxTs, <<"timetest", "x">>, 200),
   Args("TestAgent", "set", <<S1, "other", "v1">>, MaxTs, <<"x">>, 200),
   Args("TestAgent", "retract", <<S2, "other", "v2">>, 1, <<"timetest">>, 200)}

Iso(t) == [form |-> "iso", parses |-> TRUE, t |-> t]
MinuteAgo == [form |-> "rel", chars |-> <<"-", "1", "m">>]

FilterQueries ==
  {EmptyMap, [s |-> S1], [p |-> "index"], [o |-> "v1"], [tag |-> "timetest"],
   [s |-> NoneSubject, p |-> None, o |-> None, tag |-> None],
   [s |-> S1, p |-> "index", o |-> "v1", tag |-> "timetest"],
   [s |-> S2, tag |-> "x"], [since |-> MinuteAgo], [until |-> MinuteAgo],
   [p |-> "other", since |-> MinuteAgo]}
  \cup {[since |-> Iso(t), until |-> Iso(u)] : t, u \in TsSet}
  \cup {[s |-> S1, limit |-> l, newest_first |-> FALSE] : l \in 1..(MaxLimit + 1)}

NextFilter ==
  \/ Construct("A", "d1")
  \/ \E a \in FilterArgs : Room(1) /\ append("A", <<a>>)
  \/ \E q \in FilterQueries : query("A", q, MaxTs)

SpecFilter == Init /\ [][NextFilter]_vars

\* Decoding: one store on a directory whose log exists already and holds
\* any mix of well-formed records (on predicate "p") and malformed ones (on
\* predicate "q"): a line that is not JSON, a JSON value that is not an
\* object, a record without id, ts, actor or op, a record whose ts is not an
\* instant, a triple of two or of four components.
DecodeShapes ==
  {"good", "notjson", "value", "noid", "nots", "noactor", "noop", "badts",
   "short", "long"}

DecodeRecord(k, p) ==
  [id |-> k, ts |-> 1, actor |-> "Scribe", op |-> "set",
   triple |-> <<S1, p, "v1">>, meta |-> [tags |-> <<"t">>, pad |-> 200]]

DecodeLine(shape, k) ==
  LET bad == DecodeRecord(k, "q")
      line(obj) == [kind |-> "event", obj |-> obj, len |-> 200]
  IN CASE shape = "good" -> line(DecodeRecord(k, "p"))
       [] shape = "notjson" -> GarbageLine(7)
       [] shape = "value" -> ValueLine(2)
       [] shape = "noid" -> line(Pop(bad, "id"))
       [] shape = "nots" -> line(Pop(bad, "ts"))
       [] shape = "noactor" -> line(Pop(bad, "actor"))
       [] shape = "noop" -> line(Pop(bad, "op"))
       [] shape = "badts" -> line([bad EXCEPT !.ts = BadTs])
       [] shape = "short" -> line([bad EXCEPT !.triple = <<S1, "q">>])
       [] OTHER -> line([bad EXCEPT !.triple = <<S1, "q", "v1", "extra">>])

InitDecode ==
  /\ DEFAULT_DATA_DIR = "data"
  /\ \E n \in 0..MaxLog : \E f \in [1..n -> DecodeShapes] :
       /\ events = [d \in Dirs |->
            IF d = "d1" THEN [k \in 1..n |-> DecodeLine(f[k], k)] ELSE <<>>]
       /\ uuid = n
  /\ cardsFile = [d \in Dirs |-> [st |-> "missing", doc |-> EmptyMap]]
  /\ stores = [i \in StoreIds |->
       [alive |-> FALSE, dir |-> None, loaded |-> EmptyMap,
        log0 |-> 0, materialized |-> FALSE,
        latest_by_sp |-> EmptyMap, cards |-> EmptyMap]]
  /\ ret = NoRet
  /\ hist = <<>>
  /\ tmpFile = [d \in Dirs |-> NoFile]
  /\ saves = [i \in StoreIds |-> NoSave]
  /\ cardsJson = NoFile

DecodeQueries ==
  {EmptyMap, [since |-> [form |-> "iso", parses |-> TRUE, t |-> 0]],
   [tag |-> "t", limit |-> 1], [p |-> "p", newest_first |-> FALSE]}

NextDecode ==
  \/ Construct("A", "d1")
  \/ \E q \in DecodeQueries : query("A", q, MaxTs)
  \/ materialize("A", S1, None)
  \/ \E n \in 1..MaxLimit : tail("A", n)

SpecDecode == InitDecode /\ [][NextDecode]_vars

\* Time texts: every text of at most MaxChars characters over a sign,
\* digits, the four units in both cases and a letter that is no unit; the
\* empty text; absolute forms that parse or do not.
TimeChars == {"-", "0", "1", "m", "h", "d", "w", "x", "M"}
AbsoluteTexts ==
  {NoTime, [form |-> "iso", parses |-> FALSE, t |-> 0]}
  \cup {[form |-> "iso", parses |-> TRUE, t |-> t] : t \in TsSet}

\* A call of parse_relative with any of the texts.
InitParse ==
  /\ DEFAULT_DATA_DIR = "data"
  /\ events = [d \in Dirs |-> <<>>]
  /\ cardsFile = [d \in Dirs |-> NoFile]
  /\ stores = [i \in StoreIds |->
       [alive |-> FALSE, dir |-> None, loaded |-> EmptyMap,
        log0 |-> 0, materialized |-> FALSE,
        latest_by_sp |-> EmptyMap, cards |-> EmptyMap]]
  /\ uuid = 0
  /\ \/ \E s \in AbsoluteTexts :
          ret = [call |-> "parse_relative.call", s |-> s, now |-> MaxTs, val |-> <<>>]
     \/ \E n \in 1..MaxChars : \E cs \in [1..n -> TimeChars] :
          ret = [call |-> "parse_relative.call", now |-> MaxTs, val |-> <<>>,
                 s |-> [form |-> "rel", chars |-> cs]]
  /\ hist = <<>>
  /\ tmpFile = [d \in Dirs |-> NoFile]
  /\ saves = [i \in StoreIds |-> NoSave]
  /\ cardsJson = NoFile

NextParse == parse

SpecParse == InitParse /\ [][NextParse]_vars

\* Time filters that are no instant: an absolute form that does not parse,
\* a text without the sign, without a digit, with a unit that is none, with
\* no unit, with a letter inside the magnitude, and an offset that reaches
\* before the earliest instant; next to them a filter that parses.
Rel(cs) == [form |-> "rel", chars |-> cs]
BadTimes ==
  {[form |-> "iso", parses |-> FALSE, t |-> 0],
   Rel(<<"1", "m">>), Rel(<<"-", "m">>), Rel(<<"-", "1", "x">>),
   Rel(<<"-", "1">>), Rel(<<"-", "x", "1", "m">>), Rel(<<"-", "1", "1", "w">>)}

InertArgs ==
  {Args("TestAgent", "set", <<S1, "index", "v1">>, ts, <<>>, 200) : ts \in TsSet}

InertQueries ==
  {[since |-> x] : x \in BadTimes} \cup {[until |-> x] : x \in BadTimes}
  \cup {[since |-> x, until |-> Iso(1), newest_first |-> FALSE] : x \in BadTimes}
  \cup {[until |-> x, limit |-> 1] : x \in BadTimes}
  \cup {EmptyMap, [until |-> Iso(1)], [since |-> MinuteAgo]}

NextInert ==
  \/ Construct("A", "d1")
  \/ \E a \in InertArgs : Room(1) /\ append("A", <<a>>)
  \/ \E q \in InertQueries : query("A", q, MaxTs)

SpecInert == Init /\ [][NextInert]_vars

\* Lookups: two stores on one directory; a card that is upserted and one
\* that never is, a subject that has events and one that has none.
Ghost == <<"card:", "ghost">>
LookupIds == {<<"area51">>, <<"ghost">>}

NextLookup ==
  \/ \E i \in StoreIds : Construct(i, "d1")
  \/ \E i \in StoreIds : Room(1) /\ append(i, <<AreaArgs("name", "Area 51")>>)
  \/ \E i \in StoreIds : Room(1) /\ upsert_card(i, <<"area51">>, Year1955, 1)
  \/ \E i \in StoreIds, c \in LookupIds : read_card(i, c)
  \/ \E i \in StoreIds, sub \in {Area51, Ghost} : materialize(i, sub, None)
  \/ \E i \in StoreIds : list_cards(i)

SpecLookup == Init /\ [][NextLookup]_vars

\* Loading: two stores on a directory whose projection file, before the
\* first of them is constructed, is missing, cannot be read, holds a part of
\* the text of a document, holds bytes that are no document, or holds a
\* document with a card.
OneCard == [c \in {Area51} |-> [k \in {"name"} |-> "Area 51"]]
ProjectionFiles ==
  {NoFile, [st |-> "unreadable", doc |-> OneCard], [st |-> "partial", doc |-> OneCard],
   [st |-> "partial", doc |-> EmptyMap], Garbled, [st |-> "ok", doc |-> OneCard]}

InitLoad ==
  /\ DEFAULT_DATA_DIR = "data"
  /\ events = [d \in Dirs |-> <<>>]
  /\ \E cf \in ProjectionFiles :
       cardsFile = [d \in Dirs |-> IF d = "d1" THEN cf ELSE NoFile]
  /\ stores = [i \in StoreIds |->
       [alive |-> FALSE, dir |-> None, loaded |-> EmptyMap,
        log0 |-> 0, materialized |-> FALSE,
        latest_by_sp |-> EmptyMap, cards |-> EmptyMap]]
  /\ uuid = 0
  /\ ret = NoRet
  /\ hist = <<>>
  /\ tmpFile = [d \in Dirs |-> NoFile]
  /\ saves = [i \in StoreIds |-> NoSave]
  /\ cardsJson = NoFile

NextLoad ==
  \/ \E i \in StoreIds : Construct(i, "d1")
  \/ \E i \in StoreIds : Room(1) /\ upsert_card(i, <<"ghost">>, Year1955, 1)
  \/ \E i \in StoreIds, c \in LookupIds : read_card(i, c)
  \/ \E i \in StoreIds : list_cards(i)

SpecLoad == InitLoad /\ [][NextLoad]_vars

\* Round trips: one store; events of every op (also one that is none of
\* the three), with and without tags, whose meta holds no span, a list or
\* a tuple; read back by tail and by query.
RoundMetas ==
  {[tags |-> <<"t">>, pad |-> 200],
   [tags |-> <<"t">>, pad |-> 200, span |-> PyList(<<1, 2>>)],
   [tags |-> <<>>, pad |-> 200, span |-> PyTuple(<<1, 2>>)]}
RoundArgs ==
  {[actor |-> "Scribe", op |-> op, triple |-> <<S1, "p", "v1">>, ts |-> 0, meta |-> m] :
     op \in Ops \cup {"delete"}, m \in RoundMetas}

NextRound ==
  \/ Construct("A", "d1")
  \/ \E a \in RoundArgs : Room(1) /\ append("A", <<a>>)
  \/ \E n \in 1..MaxLimit : tail("A", n)
  \/ \E q \in {EmptyMap, [tag |-> "t", newest_first |-> FALSE]} : query("A", q, MaxTs)

SpecRound == Init /\ [][NextRound]_vars

\* The predicate filter: values of two predicates of one subject and of one
\* predicate of another are set and retracted through one store; a second
\* store is constructed at any moment; each subject is materialized whole
\* and for each predicate, be it there, retracted or never set.
FilterPreds == {"p", "q"}
RestrictArgs ==
  {Args("A", "set", <<S1, "p", "o1">>, 1, <<>>, 0),
   Args("A", "set", <<S1, "p", "o2">>, 1, <<>>, 0),
   Args("A", "set", <<S1, "q", "o1">>, 1, <<>>, 0),
   Args("A", "retract", <<S1, "p", "o1">>, 1, <<>>, 0),
   Args("A", "assert", <<S2, "p", "o1">>, 1, <<>>, 0)}

NextRestrict ==
  \/ \E i \in StoreIds : Construct(i, "d1")
  \/ \E a \in RestrictArgs : Room(1) /\ append("A", <<a>>)
  \/ \E i \in StoreIds, s \in {S1, S2}, p \in {None} \cup FilterPreds :
       materialize(i, s, p)

SpecRestrict == Init /\ [][NextRestrict]_vars

\* Projection and log: a directory written through upsert_card alone, by
\* two stores constructed on it at any moment; cards are read back and
\* materialized.
SyncProps ==
  {<< <<"name", "N">> >>, << <<"category", "C">> >>,
   << <<"name", "M">>, <<"year_established", "int:1955">> >>}
SyncIds == {<<"x">>, <<"y">>}

NextSync ==
  \/ \E i \in StoreIds : Construct(i, "d1")
  \/ \E i \in StoreIds, c \in SyncIds, props \in SyncProps :
       Room(Len(props)) /\ upsert_card(i, c, props, 1)
  \/ \E i \in StoreIds, c \in SyncIds : read_card(i, c)
  \/ \E i \in StoreIds, c \in SyncIds : materialize(i, <<"card:">> \o c, None)

SpecSync == Init /\ [][NextSync]_vars

\* Dual write: the tools create and update cards through the singleton
\* store, which the first run constructs; another store may be constructed
\* on a directory of its own, and cards are read back from the singleton.
Ideas ==
  {[name |-> "Area 51", category |-> "place", description |-> "a base"],
   [name |-> "Roswell", category |-> "event", description |-> "a crash"]}
ToolIds == {"0", "1", "2", "3"}

\* Each run writes four events; the log has room for MaxLog runs.
ToolRoom == uuid + 4 <= 4 * MaxLog

NextDual ==
  \/ /\ ToolRoom
     /\ \E c \in Ideas : CreateCardTool_run(c.name, c.category, c.description, 1)
  \/ /\ ToolRoom
     /\ \E id \in ToolIds : \E c \in Ideas :
          UpdateCardTool_run(id, c.name, c.category, c.description, 2)
  \/ Construct("B", "d1")
  \/ \E id \in ToolIds : read_card(Singleton, <<id>>)

SpecDual == Init /\ [][NextDual]_vars

\* Deleting: cards are created and deleted through the tools, and read and
\* listed under either setting of USE_STATE_FOR_READS.
NextDelete ==
  \/ /\ ToolRoom
     /\ \E c \in Ideas : CreateCardTool_run(c.name, c.category, c.description, 1)
  \/ \E id \in ToolIds : DeleteCardTool_run(id)
  \/ \E id \in ToolIds, use_state \in BOOLEAN : ReadCardTool_run(id, use_state)
  \/ \E use_state \in BOOLEAN : ListCardTool_run(use_state)

SpecDelete == Init /\ [][NextDelete]_vars

\* The store as a whole: two stores, each constructed on a directory of its
\* choice (or on the current module-level one), every operation.
SetS1 == Args("Scribe", "set", <<S1, "p", "v1">>, 0, <<>>, 200)

Next ==
  \/ \E i \in StoreIds, d \in {"d1", "d2", None} : Construct(i, d)
  \/ \E i \in StoreIds : TotalRoom(1) /\ append(i, <<SetS1>>)
  \/ \E i \in StoreIds : TotalRoom(1) /\ upsert_card(i, <<"x">>, << <<"name", "X">> >>, 1)
  \/ \E i \in StoreIds : query(i, [limit |-> MaxLimit], MaxTs)
  \/ \E i \in StoreIds : tail(i, MaxLimit)
  \/ \E i \in StoreIds : materialize(i, S1, None)
  \/ \E i \in StoreIds : read_card(i, <<"x">>)
  \/ \E i \in StoreIds : list_cards(i)
  \/ \E i \in StoreIds : export_cards(i)

Spec == Init /\ [][Next]_vars

\* The reads: two stores on one directory, events appended and a card
\* upserted through either, every read operation on either.
NextReads ==
  \/ \E i \in StoreIds : Construct(i, "d1")
  \/ \E i \in StoreIds : TotalRoom(1) /\ append(i, <<SetS1>>)
  \/ \E i \in StoreIds : TotalRoom(1) /\ upsert_card(i, <<"x">>, << <<"name", "X">> >>, 1)
  \/ \E i \in StoreIds, q \in {[limit |-> MaxLimit], [s |-> S1]} : query(i, q, MaxTs)
  \/ \E i \in StoreIds, n \in 1..MaxLimit : tail(i, n)
  \/ \E i \in StoreIds, s \in {S1, <<"card:", "x">>} : materialize(i, s, None)
  \/ \E i \in StoreIds, c \in {<<"x">>, <<"y">>} : read_card(i, c)
  \/ \E i \in StoreIds : list_cards(i)
  \/ \E i \in StoreIds : export_cards(i)

SpecReads == Init /\ [][NextReads]_vars


(* ------------------------- history, for the claims -------------------- *)

\* The events store i appended (by append or by upsert_card), in order.
Writes(i) ==
  Flatten([k \in 1..Len(hist) |-> IF hist[k].st = i THEN hist[k].evs ELSE <<>>])

\* Of a sequence of events or decoded records, those for the pair (s, p).
ForPair(evs, s, p) ==
  LET on(e) == Len(e.triple) = 3 /\ e.triple[1] = s /\ e.triple[2] = p
  IN SelectSeq(evs, on)

Last(seq) == seq[Len(seq)]

\* evs holds a Set(s, p, v) and, after it, as the last event for (s, p),
\* a Retract(s, p, v).
SetThenRetract(evs, s, p) ==
  LET h == ForPair(evs, s, p)
  IN /\ Len(h) >= 2
     /\ Last(h).op = "retract"
     /\ \E j \in 1..(Len(h) - 1) : h[j].op = "set" /\ h[j].triple[3] = Last(h).triple[3]

\* The last event for (s, p) in evs is a Set or an Assert.
SetLast(evs, s, p) ==
  LET h == ForPair(evs, s, p)
  IN Len(h) >= 1 /\ Last(h).op \in {"set", "assert"}

Preds == {"p", "q"}

(* ------------------------------- claims ------------------------------- *)

\* C2: on one store instance, after Set(s,p,v) and then Retract(s,p,v) were
\* appended through it, a materialize(s) on it returns a map without key p,
\* whatever else the index holds (also when the retract left it empty).
C2_RetractRemoves ==
  ret.call = "materialize" =>
    \A p \in Preds : SetThenRetract(Writes(ret.st), ret.s, p) => p \notin DOMAIN ret.val

\* C3: when the log of a directory holds Set(s,p,v) followed by
\* Retract(s,p,v), a store newly constructed on that directory (it has
\* appended nothing and this is its first materialize) returns from
\* materialize(s) a map without key p.
C3_RetractPersists ==
  (ret.call = "materialize" /\ ret.first /\ Writes(ret.st) = <<>>) =>
    \A p \in Preds :
      SetThenRetract(iter_events(SubSeq(events[stores[ret.st].dir], 1, stores[ret.st].log0)),
                     ret.s, p)
      /\ SetThenRetract(iter_events(events[stores[ret.st].dir]), ret.s, p)
      => p \notin DOMAIN ret.val

\* C4: last-write-wins.  When the last event for (s, p) appended through an
\* instance is a Set or an Assert with object v, materialize(s) on that
\* instance maps p to v (materialize(s, p') with another p' leaves p out),
\* whatever the timestamps of the events are.
C4_LastWriteWins ==
  ret.call = "materialize" =>
    \A p \in Preds :
      (SetLast(Writes(ret.st), ret.s, p) /\ ret.p \in {None, p}) =>
        /\ p \in DOMAIN ret.val
        /\ ret.val[p] = Last(ForPair(Writes(ret.st), ret.s, p)).triple[3]

\* C4's case: a value set after another one, with the earlier timestamp, is
\* the one materialize returns.
C4_Witness ==
  /\ ret.call = "materialize"
  /\ LET h == ForPair(Writes(ret.st), ret.s, "p")
     IN /\ Len(h) >= 2
        /\ Last(h).op \in {"set", "assert"}
        /\ h[Len(h) - 1].op \in {"set", "assert"}
        /\ Last(h).ts < h[Len(h) - 1].ts
        /\ Last(h).triple[3] # h[Len(h) - 1].triple[3]
        /\ "p" \in DOMAIN ret.val
        /\ ret.val["p"] = Last(h).triple[3]

\* C5: for a store opened on a directory whose log already held Set/Assert
\* records for s, whatever it appended before its first materialize call,
\* that materialize(s) contains every predicate of s whose last record in
\* the log is a Set or an Assert.
C5_MaterializeComplete ==
  (/\ ret.call = "materialize" /\ ret.first /\ ret.p = None
   /\ \E p \in Preds :
        SetLast(iter_events(SubSeq(events[stores[ret.st].dir], 1, stores[ret.st].log0)),
                ret.s, p)) =>
    \A p \in Preds :
      SetLast(iter_events(events[stores[ret.st].dir]), ret.s, p) => p \in DOMAIN ret.val

\* The calls that wrote through store i, and its upserts of the card key.
Calls(i) == LET mine(c) == c.st = i IN SelectSeq(hist, mine)
KeyOf(card_id) ==
  IF Len(card_id) >= 1 /\ card_id[1] = "card:" THEN card_id ELSE <<"card:">> \o card_id
UpsertsOf(i, key) ==
  LET hit(c) == c.st = i /\ c.call = "upsert_card" /\ KeyOf(c.id) = key
  IN SelectSeq(hist, hit)
IdsOf(evs) == {evs[k].id : k \in 1..Len(evs)}
Min(a, b) == IF a < b THEN a ELSE b
Reads == {"query", "tail", "materialize", "read_card", "list_cards", "export_cards"}

\* C1: with two stores alive, constructed on distinct directories, no read
\* on one of them returns an event or a card written through the other:
\* query and tail return only events the store itself appended, every pair
\* of materialize comes from an event it appended, and every card returned
\* is one it upserted.
C1_Isolation ==
  (/\ ret.call \in Reads
   /\ \A i \in StoreIds : stores[i].alive
   /\ stores["A"].dir # stores["B"].dir) =>
    LET i == ret.st
        own == Writes(i)
        mycards == {KeyOf(c.id) : c \in {x \in Range(hist) : x.st = i /\ x.call = "upsert_card"}}
    IN /\ ret.call \in {"query", "tail"} => IdsOf(ret.val) \subseteq IdsOf(own)
       /\ ret.call = "materialize" =>
            \A p \in DOMAIN ret.val :
              \E k \in 1..Len(own) : own[k].triple = <<ret.s, p, ret.val[p]>>
       /\ ret.call = "read_card" => (ret.val = EmptyMap \/ KeyOf(ret.id) \in mycards)
       /\ ret.call \in {"list_cards", "export_cards"} => DOMAIN ret.val \subseteq mycards

\* The records of the log that match query q, in file order.
Matches(log, q, now) ==
  LET since == parse_relative(Get(q, "since", NoTime), now)
      until == parse_relative(Get(q, "until", NoTime), now)
      m(obj) == query_match(obj, q, since, until)
  IN SelectSeq(iter_events(log), m)

Sorted(evs, newest_first) ==
  \A x \in 1..(Len(evs) - 1) :
    IF newest_first THEN evs[x].ts >= evs[x + 1].ts ELSE evs[x].ts <= evs[x + 1].ts

\* What C6 says of a query that returned: the events returned are the first
\* min(limit, number of matches) matches in file order, in descending order
\* of timestamp when newest_first, ascending otherwise.
TruncateThenSort ==
  LET ms == Matches(events[EVENTS_FILE], ret.q, ret.now)
      k == Min(Get(ret.q, "limit", 100), Len(ms))
  IN /\ Len(ret.val) = k
     /\ IdsOf(ret.val) = IdsOf(SubSeq(ms, 1, k))
     /\ Sorted(ret.val, Get(ret.q, "newest_first", TRUE))

\* C6: query returns the first min(limit, number of matches) matching
\* records in file order, sorted by timestamp after the truncation.
C6_TruncateThenSort == ret.call = "query" => TruncateThenSort

\* C6 holds of every query whose limit is at least 1.
C6_PositiveLimit ==
  (ret.call = "query" /\ Get(ret.q, "limit", 100) >= 1) => TruncateThenSort

\* C7: with newest_first and more than limit matches (limit at least 1),
\* query returns exactly limit events, newest first, and none of the matches
\* left out is newer than one returned.
C7_NewestReturned ==
  LET ms == Matches(events[EVENTS_FILE], ret.q, ret.now)
      limit == Get(ret.q, "limit", 100)
  IN (/\ ret.call = "query" /\ Get(ret.q, "newest_first", TRUE)
      /\ limit >= 1 /\ Len(ms) > limit) =>
       /\ Len(ret.val) = limit
       /\ Sorted(ret.val, TRUE)
       /\ \A x \in 1..Len(ret.val), y \in 1..Len(ms) :
            ms[y].id \notin IdsOf(ret.val) => ret.val[x].ts >= ms[y].ts

\* C8: tail(n) returns the last min(n, number of decodable records)
\* decodable records of the log, in file order; a line that does not decode
\* does not count toward n.  (Stated for a log of at most one block, which
\* tail reads whole.)
C8_TailSkipsUndecodable ==
  (ret.call = "tail" /\ FileSize(events[EVENTS_FILE]) <= block) =>
    LET dec == iter_events(events[EVENTS_FILE])
        k == Min(ret.n, Len(dec))
        want == SubSeq(dec, Len(dec) - k + 1, Len(dec))
    IN /\ Len(ret.val) = k
       /\ \A x \in 1..k : ret.val[x].id = want[x].id

\* The right-biased merge of two property maps, and the map of a sequence
\* of (key, value) items.
Merge(f, g) == [k \in (DOMAIN f) \cup (DOMAIN g) |-> IF k \in DOMAIN g THEN g[k] ELSE f[k]]
RECURSIVE PropsMap(_)
PropsMap(props) ==
  IF props = <<>> THEN EmptyMap
  ELSE Merge(PropsMap(SubSeq(props, 1, Len(props) - 1)),
             [k \in {Last(props)[1]} |-> Last(props)[2]])
RECURSIVE MergeAll(_, _)
MergeAll(base, calls) ==
  IF calls = <<>> THEN base
  ELSE MergeAll(Merge(base, PropsMap(Head(calls).props)), Tail(calls))
LoadedCard(i, key) ==
  IF key \in DOMAIN stores[i].loaded THEN stores[i].loaded[key] ELSE EmptyMap

\* C9: read_card(id) on an instance equals the right-biased merge, in call
\* order, of the property maps of all its upsert_card calls for that card,
\* on top of what the instance loaded for the card when it was constructed
\* (nothing, on a fresh directory).
C9_CardMerge ==
  ret.call = "read_card" =>
    ret.val = MergeAll(LoadedCard(ret.st, KeyOf(ret.id)), UpsertsOf(ret.st, KeyOf(ret.id)))

\* C9's case: a store that loaded nothing, two upserts of the card, and a
\* property of the earlier call that the later call does not name is read
\* back with its earlier value.
C9_Witness ==
  /\ ret.call = "read_card"
  /\ stores[ret.st].loaded = EmptyMap
  /\ LET ups == UpsertsOf(ret.st, KeyOf(ret.id))
     IN /\ Len(ups) >= 2
        /\ \E k \in DOMAIN PropsMap(ups[1].props) :
             /\ k \notin DOMAIN PropsMap(Last(ups).props)
             /\ k \in DOMAIN ret.val
             /\ ret.val[k] = PropsMap(ups[1].props)[k]

\* The end-to-end example: a store on a fresh directory, through which three
\* Set events for card:area51 (name, category, description) were appended
\* and then upsert_card("area51", {"year_established": "1955"}) was called,
\* and nothing else.
C10_Scenario(i) ==
  LET h == Calls(i)
  IN /\ Len(h) = 3
     /\ h[1].call = "new" /\ stores[i].loaded = EmptyMap
     /\ h[2].call = "append" /\ Len(h[2].evs) = 3
     /\ \A k \in 1..3 : h[2].evs[k].op = "set" /\ h[2].evs[k].triple[1] = Area51
     /\ {h[2].evs[k].triple[2] : k \in 1..3} = {"name", "category", "description"}
     /\ h[3].call = "upsert_card" /\ h[3].id = <<"area51">> /\ h[3].props = Year1955

AllFour == {"name", "category", "description", "year_established"}

ProjectionOf(i) ==
  LET ups == {c \in Range(hist) : c.st = i /\ c.call = "upsert_card"}
      keys == (DOMAIN stores[i].loaded) \cup {KeyOf(c.id) : c \in ups}
  IN [key \in keys |-> MergeAll(LoadedCard(i, key), UpsertsOf(i, key))]

\* C11: read_card, list_cards and export_cards are functions of the
\* instance's upsert_card calls (and of the projection it loaded) alone: two
\* runs with the same upserts return the same results, whatever events were
\* passed to append, also on card subjects.
C11_ReadsProjection ==
  LET proj == ProjectionOf(ret.st)
  IN /\ ret.call = "read_card" =>
          ret.val = (IF KeyOf(ret.id) \in DOMAIN proj THEN proj[KeyOf(ret.id)] ELSE EmptyMap)
     /\ ret.call = "export_cards" => ret.val = proj
     /\ ret.call = "list_cards" =>
          /\ DOMAIN ret.val = DOMAIN proj
          /\ \A cid \in DOMAIN proj :
               \A k \in DOMAIN proj[cid] :
                 k \in DOMAIN ret.val[cid] /\ ret.val[cid][k] = proj[cid][k]

\* C11's case: the instance appended events on the card's subject, upserted
\* the card, and read_card returns the upserted properties without the
\* property that only the log holds.
C11_Witness ==
  /\ ret.call = "read_card"
  /\ stores[ret.st].loaded = EmptyMap
  /\ \E k \in 1..Len(Writes(ret.st)) :
       /\ Writes(ret.st)[k].actor = "Scribe"
       /\ Writes(ret.st)[k].triple[1] = KeyOf(ret.id)
       /\ Writes(ret.st)[k].triple[2] = "name"
  /\ Len(UpsertsOf(ret.st, KeyOf(ret.id))) >= 1
  /\ DOMAIN ret.val = {"year_established"}

\* C12: list_cards returns one entry per projected card, and the "id" field
\* of each entry is the card's normalized id, whatever property maps were
\* upserted (also one with a key named "id").
C12_ListIds ==
  ret.call = "list_cards" =>
    /\ DOMAIN ret.val = DOMAIN stores[ret.st].cards
    /\ \A cid \in DOMAIN ret.val :
         "id" \in DOMAIN ret.val[cid] /\ ret.val[cid]["id"] = join(cid)

\* C12 holds of every card whose property map has no key named "id".
C12_WithoutIdKey ==
  ret.call = "list_cards" =>
    /\ DOMAIN ret.val = DOMAIN stores[ret.st].cards
    /\ \A cid \in DOMAIN ret.val :
         "id" \notin DOMAIN stores[ret.st].cards[cid] =>
           "id" \in DOMAIN ret.val[cid] /\ ret.val[cid]["id"] = join(cid)

\* Ids without the "card:" prefix, and those ids with the prefixed ones.
PlainIds == {<<>>, <<"area51">>, <<"x">>, <<"0">>}
AnyIds == PlainIds \cup {<<"card:">> \o x : x \in PlainIds} \cup {<<"card:", "card:", "x">>}

\* C13: normalization is idempotent; in every reachable state read_card(x)
\* equals read_card("card:" + x) for every id x without the prefix; and an
\* upsert_card under either spelling updates the one card "card:" + x: the
\* projection has no key without the prefix, and after the call the card
\* under the prefixed key holds the given properties.
C13_Normalization ==
  /\ \A c \in AnyIds : normalize_card_id(normalize_card_id(c)) = normalize_card_id(c)
  /\ \A x \in PlainIds : normalize_card_id(x) = normalize_card_id(<<"card:">> \o x)
  /\ \A i \in StoreIds, x \in PlainIds :
       read_card_result(stores[i].cards, x)
         = read_card_result(stores[i].cards, <<"card:">> \o x)
  /\ \A i \in StoreIds :
       \A key \in DOMAIN stores[i].cards : Len(key) >= 1 /\ key[1] = "card:"
  /\ ret.call = "upsert_card" =>
       LET c == Last(hist)
           cards == stores[c.st].cards
       IN /\ KeyOf(c.id) \in DOMAIN cards
          /\ \A k \in DOMAIN PropsMap(c.props) : cards[KeyOf(c.id)][k] = PropsMap(c.props)[k]

\* C13's case: one store upserted the card under both spellings of its id,
\* its projection holds the one card, and read_card of the plain id returns
\* that card with the properties of both calls.
C13_Witness ==
  /\ ret.call = "read_card"
  /\ ret.id = <<"area51">>
  /\ \E a, b \in 1..Len(hist) :
       /\ hist[a].st = ret.st /\ hist[a].call = "upsert_card" /\ hist[a].id = <<"area51">>
       /\ hist[b].st = ret.st /\ hist[b].call = "upsert_card" /\ hist[b].id = Area51
       /\ hist[a].props # hist[b].props
  /\ DOMAIN stores[ret.st].cards = {Area51}
  /\ ret.val = stores[ret.st].cards[Area51]
  /\ DOMAIN ret.val = {"name", "year_established"}

\* C14: with one writer, whatever step of upsert_card an I/O failure or a
\* crash interrupts, the projection file is never a partial document: from
\* the moment the call starts, the file is a complete document, equal to the
\* document before the call or to the document after it, and that is what a
\* store constructed afterwards loads.
C14_AtomicSave ==
  /\ \A d \in Dirs : cardsFile[d].st \in {"missing", "ok"}
  /\ \A i \in StoreIds :
       saves[i].pc # "idle" =>
         /\ cardsFile[saves[i].dir].st = "ok"
         /\ load_cards_index(cardsFile[saves[i].dir]) \in {saves[i].before, saves[i].after}
  /\ \A i, j \in StoreIds :
       (saves[i].pc = "crashed" /\ stores[j].alive) =>
         stores[j].loaded \in {saves[i].before, saves[i].after}

\* C14's case: the process died while the temporary file held a part of the
\* new document, the new document differs from the old one, and a store
\* constructed after the crash loaded the old document, whole.
C14_Witness ==
  /\ saves["A"].pc = "crashed"
  /\ tmpFile[saves["A"].dir].st = "partial"
  /\ tmpFile[saves["A"].dir].doc = saves["A"].after
  /\ saves["A"].before # saves["A"].after
  /\ saves["A"].before # EmptyMap
  /\ stores["B"].alive
  /\ stores["B"].loaded = saves["A"].before
  /\ ret.call = "read_card" /\ ret.st = "B"
  /\ ret.val = saves["A"].before[Area51]

\* C15: with two writers on one directory whose open/write/close/rename
\* steps interleave, the projection file is at every moment a complete
\* document (no reader sees a half-written one), and no write fails.
C15_ConcurrentSave ==
  /\ \A d \in Dirs : cardsFile[d].st \in {"missing", "ok"}
  /\ \A i \in StoreIds : saves[i].pc # "failed"

\* The ids of the decodable records of the log of directory d.
LogIds(d) == IdsOf(iter_events(events[d]))

\* C16: what is written through a store goes to the directory the store was
\* constructed on, whatever stores were constructed since: after append the
\* appended records are in that directory's log; after upsert_card its
\* records are in that log and that directory's projection file holds the
\* store's projection (so that a store constructed later on the directory
\* loads the card).
C16_OwnDirectory ==
  LET d == stores[ret.st].dir
  IN /\ ret.call = "append" => Range(ret.val) \subseteq LogIds(d)
     /\ ret.call = "upsert_card" =>
          /\ IdsOf(Last(hist).evs) \subseteq LogIds(d)
          /\ cardsFile[d].st = "ok"
          /\ load_cards_index(cardsFile[d]) = stores[ret.st].cards

\* C17: a step of append(events) extends the log by exactly one record per
\* event, at its end and in call order, whatever the op of the event, and
\* returns the events' ids in that order; with no events it returns the
\* empty list and leaves the log as it was.
C17_AppendInOrder ==
  [][(ret'.call = "append" /\ hist' # hist) =>
       LET evs == Last(hist').evs
           old == events[EVENTS_FILE]
           new == events'[EVENTS_FILE]
       IN /\ Len(new) = Len(old) + Len(evs)
          /\ SubSeq(new, 1, Len(old)) = old
          /\ \A k \in 1..Len(evs) :
               /\ new[Len(old) + k].kind = "event"
               /\ new[Len(old) + k].obj.id = evs[k].id
               /\ new[Len(old) + k].obj.op = evs[k].op
               /\ new[Len(old) + k].obj.triple = evs[k].triple
               /\ new[Len(old) + k].obj.ts = evs[k].ts
               /\ new[Len(old) + k].obj.actor = evs[k].actor
          /\ \A d \in Dirs \ {EVENTS_FILE} : events'[d] = events[d]
          /\ Len(ret'.val) = Len(evs)
          /\ \A k \in 1..Len(evs) : ret'.val[k] = evs[k].id
          /\ (evs = <<>> => (events' = events /\ ret'.val = <<>>))]_vars

\* C17's case: a batch of two events, a Set and then a Retract, was
\* appended to a log that held records already; the two are its last two
\* records, in that order, and their ids were returned in that order.
C17_Witness ==
  /\ ret.call = "append"
  /\ Len(ret.val) = 2
  /\ LET log == events[EVENTS_FILE]
         n == Len(log)
     IN /\ n >= 3
        /\ log[n - 1].obj.op = "set" /\ log[n - 1].obj.id = ret.val[1]
        /\ log[n].obj.op = "retract" /\ log[n].obj.id = ret.val[2]

\* C18: the log of every directory is append-only: in every step (a store
\* constructed on a directory that has a log, append, upsert_card, query,
\* materialize, tail, the card reads) the log before the step is a prefix of
\* the log after it.
C18_AppendOnly ==
  [][\A d \in Dirs :
       /\ Len(events[d]) <= Len(events'[d])
       /\ SubSeq(events'[d], 1, Len(events[d])) = events[d]]_vars

\* C18's case: a store was constructed on a directory whose log held
\* records, the log has grown since, and the records it held then are still
\* its first records.
C18_Witness ==
  \E i \in StoreIds :
    /\ stores[i].alive
    /\ stores[i].log0 >= 1
    /\ Len(events[stores[i].dir]) > stores[i].log0
    /\ \E j \in StoreIds :
         /\ j # i
         /\ Len(Writes(j)) >= stores[i].log0
         /\ \A k \in 1..stores[i].log0 :
              events[stores[i].dir][k].obj.id = Writes(j)[k].id

\* C19: a step of upsert_card(id, props) extends the log by exactly one
\* record per item of props, in the order of props, each with op "set",
\* actor "CardTool", the triple (normalized id, key, text of the value) and
\* "card" among its tags; nothing else is appended.
C19_UpsertEvents ==
  [][(ret'.call = "upsert_card" /\ hist' # hist) =>
       LET c == Last(hist')
           old == events[EVENTS_FILE]
           new == events'[EVENTS_FILE]
       IN /\ Len(new) = Len(old) + Len(c.props)
          /\ SubSeq(new, 1, Len(old)) = old
          /\ \A d \in Dirs \ {EVENTS_FILE} : events'[d] = events[d]
          /\ \A k \in 1..Len(c.props) :
               LET rec == new[Len(old) + k]
               IN /\ rec.kind = "event"
                  /\ rec.obj.op = "set"
                  /\ rec.obj.actor = "CardTool"
                  /\ rec.obj.triple = <<KeyOf(c.id), c.props[k][1], str(c.props[k][2])>>
                  /\ \E x \in 1..Len(rec.obj.meta.tags) : rec.obj.meta.tags[x] = "card"]_vars

\* C19's case: upsert_card("area51", {"name": ..., "year_established": 1955})
\* on a log that held records: its last two records are the two Sets on
\* card:area51, the integer written as the text "1955".
C19_Witness ==
  /\ ret.call = "upsert_card"
  /\ Last(hist).id = <<"area51">>
  /\ Len(Last(hist).props) = 2
  /\ LET log == events[EVENTS_FILE]
         n == Len(log)
     IN /\ n >= 3
        /\ log[n - 1].obj.triple = <<Area51, "name", "Groom Lake">>
        /\ log[n].obj.triple = <<Area51, "year_established", "1955">>
        /\ log[n].obj.actor = "CardTool"

\* Whether event or record e passes the filters of query q at the instant
\* now: a filter that is absent (or None) passes everything; s, p and o ask
\* for equality, tag for membership in meta.tags, since and until for
\* since <= ts <= until.
Passes(e, q, now) ==
  LET since == parse_relative(Get(q, "since", NoTime), now)
      until == parse_relative(Get(q, "until", NoTime), now)
  IN /\ ("s" \in DOMAIN q /\ q.s # NoneSubject) => e.triple[1] = q.s
     /\ ("p" \in DOMAIN q /\ q.p # None) => e.triple[2] = q.p
     /\ ("o" \in DOMAIN q /\ q.o # None) => e.triple[3] = q.o
     /\ ("tag" \in DOMAIN q /\ q.tag # None) =>
          \E k \in 1..Len(e.meta.tags) : e.meta.tags[k] = q.tag
     /\ since.some => since.t <= e.ts
     /\ until.some => e.ts <= until.t

PassingIds(log, q, now) ==
  {obj.id : obj \in {x \in Range(iter_events(log)) : Passes(x, q, now)}}

\* C20: every event query returns passes every active filter, and when the
\* limit is at least the number of records that pass, every one of them is
\* returned.
C20_FilterSoundComplete ==
  ret.call = "query" =>
    LET all == PassingIds(events[EVENTS_FILE], ret.q, ret.now)
    IN /\ \A k \in 1..Len(ret.val) : Passes(ret.val[k], ret.q, ret.now)
       /\ IdsOf(ret.val) \subseteq IdsOf(iter_events(events[EVENTS_FILE]))
       /\ Get(ret.q, "limit", 100) >= Cardinality(all) =>
            (IdsOf(ret.val) = all /\ Len(ret.val) = Cardinality(all))

\* C20's case: a query with since = until = t on a log that holds a record
\* at t and records at other instants returns exactly the records at t.
C20_Witness ==
  /\ ret.call = "query"
  /\ "since" \in DOMAIN ret.q /\ "until" \in DOMAIN ret.q
  /\ ret.q.since = ret.q.until
  /\ Len(ret.val) >= 1
  /\ \A k \in 1..Len(ret.val) : ret.val[k].ts = ret.q.since.t
  /\ Len(events[EVENTS_FILE]) > Len(ret.val)

\* C21: the limit is a result cap: for every limit of at least 0 (0
\* included) and every log, query returns at most limit events, and at most
\* 100 when the query gives no limit.
C21_LimitCaps ==
  ret.call = "query" => Len(ret.val) <= Get(ret.q, "limit", 100)

\* C21 holds of every query whose limit is at least 1.
C21_PositiveLimitCaps ==
  (ret.call = "query" /\ Get(ret.q, "limit", 100) >= 1) =>
    Len(ret.val) <= Get(ret.q, "limit", 100)

\* A line of the log that holds a well-formed record: a JSON object with
\* id, ts, actor and op, a ts that is an instant, and a triple of three.
WellFormed(ln) ==
  /\ ln.kind = "event"
  /\ {"id", "ts", "actor", "op", "triple"} \subseteq DOMAIN ln.obj
  /\ ln.obj.ts # BadTs
  /\ Len(ln.obj.triple) = 3

Cleaned(log) == SelectSeq(log, WellFormed)

\* C22: on a log that holds any mix of malformed records, query, tail and
\* the first materialize of a newly constructed store complete without
\* raising and return what they return on the same log with the malformed
\* records removed.
C22_DecodeFaultsSkipped ==
  LET log == events[EVENTS_FILE]
  IN /\ ret.call = "query" =>
          /\ ret.exc = None
          /\ ret.val = query_result(Cleaned(log), ret.q, ret.now)
     /\ ret.call = "tail" => ret.val = tail_result(Cleaned(log), ret.n)
     /\ (ret.call = "materialize" /\ ret.first) =>
          /\ ret.exc = None
          /\ ret.val = materialized(replay(iter_events(Cleaned(log)), EmptyMap), ret.s, ret.p)

\* The lines of the log that query skips as the spec says: those that are
\* not JSON and the records whose triple has not three components.
Skippable(ln) ==
  \/ ln.kind = "notjson"
  \/ ln.kind = "event" /\ is_object(ln.obj) /\ "triple" \in DOMAIN ln.obj
       /\ Len(ln.obj.triple) # 3 /\ EventKeys \subseteq DOMAIN ln.obj
       /\ ln.obj.ts # BadTs

\* On a log whose malformed lines are all of those two kinds, query does
\* not raise and returns what it returns on the log without them.
C22_QuerySkipsBadTriples ==
  LET log == events[EVENTS_FILE]
  IN (ret.call = "query" /\ \A k \in 1..Len(log) : WellFormed(log[k]) \/ Skippable(log[k])) =>
       /\ ret.exc = None
       /\ ret.val = query_result(Cleaned(log), ret.q, ret.now)

Units == {"m", "h", "d", "w"}

\* A relative expression as the claim defines it: "-", then one or more
\* digits, then one unit letter of m, h, d, w, and nothing else.
RelativeForm(cs) ==
  /\ Len(cs) >= 3
  /\ cs[1] = "-"
  /\ \A k \in 2..(Len(cs) - 1) : cs[k] \in Digits
  /\ cs[Len(cs)] \in Units

\* C23: parse_relative returns no bound for every text that is neither an
\* absolute instant that parses nor a relative expression of that form
\* (also when its magnitude holds a character that is no digit, when its
\* unit is missing, when its unit is not one of the four).
C23_MalformedNoBound ==
  ret.call = "parse_relative" =>
    LET wellformed ==
          \/ ret.s.form = "iso" /\ ret.s.parses
          \/ ret.s.form = "rel" /\ RelativeForm(ret.s.chars)
    IN ~wellformed => ~ret.val.some

\* What parse_relative does reject: a relative text without the leading
\* "-", without any digit, or ending in a letter that is not a unit (in
\* either case); an absolute form that does not parse; the empty text.
C23_Rejected ==
  ret.call = "parse_relative" =>
    LET cs == ret.s.chars
        last == cs[Len(cs)]
    IN /\ ret.s.form = "none" => ~ret.val.some
       /\ (ret.s.form = "iso" /\ ~ret.s.parses) => ~ret.val.some
       /\ ret.s.form = "rel" =>
            ((\/ cs[1] # "-"
              \/ \A k \in 1..Len(cs) : cs[k] \notin Digits
              \/ last \in Letters /\ lower(last) \notin Units) => ~ret.val.some)

\* The minutes of a relative expression of the form of C23.
Minutes(cs) ==
  LET unit == cs[Len(cs)]
      n == int_of(SubSeq(cs, 2, Len(cs) - 1), 0)
  IN n * (CASE unit = "m" -> 1 [] unit = "h" -> 60 [] unit = "d" -> 1440
            [] OTHER -> 10080)

\* A time text that is no instant: not an absolute instant that parses, not
\* a relative expression of that form whose instant a datetime holds.
Unparsable(s, now) ==
  /\ s.form # "none"
  /\ ~(s.form = "iso" /\ s.parses)
  /\ ~(s.form = "rel" /\ RelativeForm(s.chars) /\ now - Minutes(s.chars) >= datetime_min)

Without(q, ks) == [k \in (DOMAIN q) \ ks |-> q[k]]

\* C24: a since or an until that is no instant makes that filter inert: the
\* query does not fail and returns what it returns without that filter.
C24_UnparsableInert ==
  ret.call = "query" =>
    LET bad == {k \in {"since", "until"} \cap DOMAIN ret.q : Unparsable(ret.q[k], ret.now)}
    IN bad # {} =>
         /\ ret.exc = None
         /\ ret.val = query_result(events[EVENTS_FILE], Without(ret.q, bad), ret.now)

\* Inertness holds of every since and until for which parse_relative
\* returns no bound.
C24_NoBoundInert ==
  ret.call = "query" =>
    LET bad == {k \in {"since", "until"} \cap DOMAIN ret.q :
                  /\ parse_relative_exc(ret.q[k], ret.now) = None
                  /\ ~parse_relative(ret.q[k], ret.now).some}
    IN (bad # {} /\ ret.exc = None) =>
         ret.val = query_result(events[EVENTS_FILE], Without(ret.q, bad), ret.now)

\* No upsert_card was ever called for the card of this id, through any
\* store; no record of any log has this subject.
NeverUpserted(card_id) ==
  \A k \in 1..Len(hist) : hist[k].call = "upsert_card" => KeyOf(hist[k].id) # KeyOf(card_id)
NoEventsOn(sub) ==
  \A d \in Dirs : \A k \in 1..Len(events[d]) : events[d][k].obj.triple[1] # sub

\* C25: a step of read_card for an id that was never upserted returns the
\* empty map, a step of materialize for a subject without events returns the
\* empty map, neither raises, and neither changes the projection of any
\* store, the projection file, or what list_cards returns.
C25_LookupFaults ==
  [][((ret'.call = "read_card" /\ NeverUpserted(ret'.id))
        \/ (ret'.call = "materialize" /\ NoEventsOn(ret'.s))) =>
       /\ ret'.val = EmptyMap
       /\ ret'.call = "materialize" => ret'.exc = None
       /\ cardsFile' = cardsFile
       /\ events' = events
       /\ \A i \in StoreIds :
            /\ stores'[i].cards = stores[i].cards
            /\ list_cards_result(stores'[i].cards) = list_cards_result(stores[i].cards)]_vars

\* C25's case: read_card of the card that was never upserted answered with
\* the empty map on a store whose projection holds another card, and the
\* projection still has that one card only.
C25_Witness ==
  /\ ret.call = "read_card"
  /\ ret.id = <<"ghost">>
  /\ NeverUpserted(ret.id)
  /\ ret.val = EmptyMap
  /\ DOMAIN stores[ret.st].cards = {Area51}
  /\ load_cards_index(cardsFile[stores[ret.st].dir]) = stores[ret.st].cards

\* C26: a step that constructs a store on a directory whose projection file
\* is missing, unreadable or not a JSON document succeeds and leaves the
\* store with an empty projection; on such a store, until it upserts a
\* card, read_card returns the empty map for every id and list_cards
\* returns no entry.
C26_EmptyOnLoadFailure ==
  [][/\ \A i \in StoreIds :
          (~stores[i].alive /\ stores'[i].alive
             /\ cardsFile[stores'[i].dir].st # "ok") =>
            /\ stores'[i].loaded = EmptyMap
            /\ stores'[i].cards = EmptyMap
     /\ (/\ ret'.call \in {"read_card", "list_cards"}
         /\ cardsFile[stores[ret'.st].dir].st # "ok" \/ stores[ret'.st].loaded = EmptyMap
         /\ \A k \in 1..Len(hist) :
              ~(hist[k].call = "upsert_card" /\ hist[k].st = ret'.st)) =>
          ret'.val = EmptyMap]_vars

\* C26's case: the projection file holds a part of the text of a document
\* with a card (no store has replaced it), a store was constructed on the
\* directory, and its read_card of that card returned the empty map.
C26_Witness ==
  /\ ret.call = "read_card"
  /\ ret.id = <<"area51">>
  /\ stores[ret.st].alive
  /\ cardsFile[stores[ret.st].dir] = [st |-> "partial", doc |-> OneCard]
  /\ ret.val = EmptyMap

\* The events appended through any store, as they were passed to append.
Appended == Flatten([k \in 1..Len(hist) |-> hist[k].evs])

\* The event r that was read back is the event e, field by field.
SameEvent(r, e) ==
  /\ r.id = e.id /\ r.ts = e.ts /\ r.actor = e.actor /\ r.op = e.op
  /\ r.triple = e.triple /\ r.meta = e.meta

\* C27: round trip.  Every event that tail or query returns for an event
\* e that was appended (three-component triple, any op, any meta map) has
\* the id, ts, actor, op, triple and meta of e.
C27_RoundTrip ==
  ret.call \in {"tail", "query"} =>
    \A x \in 1..Len(ret.val) : \A k \in 1..Len(Appended) :
      ret.val[x].id = Appended[k].id => SameEvent(ret.val[x], Appended[k])

\* The round trip holds of every event whose meta holds no tuple.
C27_JsonMetaRoundTrip ==
  ret.call \in {"tail", "query"} =>
    \A x \in 1..Len(ret.val) : \A k \in 1..Len(Appended) :
      (/\ ret.val[x].id = Appended[k].id
       /\ ~("span" \in DOMAIN Appended[k].meta /\ Appended[k].meta.span.py = "tuple")) =>
        SameEvent(ret.val[x], Appended[k])

\* C28: with DUAL_WRITE enabled, after any runs of CreateCardTool and
\* UpdateCardTool, every card of the cards file has in the store the name,
\* the category and the description it has in the file: in the projection
\* of the singleton store, and in whatever read_card returned for it.
CardFields == {"name", "category", "description"}
SameFields(c, legacy) ==
  /\ CardFields \subseteq DOMAIN c
  /\ \A k \in CardFields : c[k] = legacy[k]
C28_DualWriteEquivalence ==
  LET legacy == load_cards(cardsJson)
  IN /\ \A id \in DOMAIN legacy :
          /\ stores[Singleton].alive
          /\ SameFields(read_card_result(stores[Singleton].cards, <<id>>), legacy[id])
     /\ (ret.call = "read_card" /\ ret.st = Singleton /\ ret.id[1] \in DOMAIN legacy)
          => SameFields(ret.val, legacy[ret.id[1]])
\* A card created as one idea and updated to the other is read back, while a
\* second card is in the file.
C28_Witness ==
  /\ ret.call = "read_card"
  /\ ret.id = <<"0">>
  /\ {"0", "1"} \subseteq DOMAIN load_cards(cardsJson)
  /\ load_cards(cardsJson)["0"].id = "0"
  /\ load_cards(cardsJson)["0"].name # load_cards(cardsJson)["1"].name
  /\ ret.val.name = load_cards(cardsJson)["0"].name

\* C29: materialize(s, p) is materialize(s) restricted to the key p: it
\* holds the latest value of p when materialize(s) has the key p, it is
\* empty otherwise, and it has no other key.  (materialize(s) is what the
\* index the call left holds for s.)
Whole(latest, s) ==
  [pp \in {sp[2] : sp \in {x \in DOMAIN latest : x[1] = s}} |-> latest[<<s, pp>>][2]]
Restricted(m, p) == [k \in (DOMAIN m) \cap {p} |-> m[k]]
C29_FilterRestricts ==
  (ret.call = "materialize" /\ ret.exc = None) =>
     LET whole == Whole(stores[ret.st].latest_by_sp, ret.s)
     IN /\ ret.p = None => ret.val = whole
        /\ ret.p # None => ret.val = Restricted(whole, ret.p)
\* One predicate of a subject that has two is materialized.
C29_Witness ==
  /\ ret.call = "materialize"
  /\ ret.p = "p"
  /\ DOMAIN ret.val = {"p"}
  /\ DOMAIN Whole(stores[ret.st].latest_by_sp, ret.s) = {"p", "q"}
\* A predicate the subject does not have gives the empty map.
C29_WitnessEmpty ==
  /\ ret.call = "materialize"
  /\ ret.p = "q"
  /\ ret.val = EmptyMap
  /\ DOMAIN Whole(stores[ret.st].latest_by_sp, ret.s) = {"p"}

\* C30: when materialize runs on a store whose index is empty, the index it
\* leaves is the fold of the Set and Assert records of the log in file
\* order: for each (subject, predicate) that has such a record, the
\* timestamp and the object of the last one; the Retract records of the log
\* change nothing of it.
SetAsserts(log) ==
  LET written(ln) == ln.obj.op \in {"set", "assert"}
  IN SelectSeq(log, written)
LastFor(recs, sp) ==
  LET k == CHOOSE j \in 1..Len(recs) :
             /\ <<recs[j].obj.triple[1], recs[j].obj.triple[2]>> = sp
             /\ \A m \in (j + 1)..Len(recs) :
                  <<recs[m].obj.triple[1], recs[m].obj.triple[2]>> # sp
  IN <<recs[k].obj.ts, recs[k].obj.triple[3]>>
FoldOf(recs) ==
  [sp \in {<<recs[j].obj.triple[1], recs[j].obj.triple[2]>> : j \in 1..Len(recs)}
     |-> LastFor(recs, sp)]
AllWellFormed(log) ==
  \A k \in 1..Len(log) :
     /\ log[k].kind = "event"
     /\ EventKeys \subseteq DOMAIN log[k].obj
     /\ Len(Get(log[k].obj, "triple", <<>>)) = 3
LastRecords(log, n) ==
  LET m == IF n < Len(log) THEN n ELSE Len(log)
  IN [k \in 1..m |-> event_of(log[Len(log) - m + k].obj)]
C31_TailExact ==
  (ret.call = "tail" /\ AllWellFormed(events[EVENTS_FILE]))
     => ret.val = LastRecords(events[EVENTS_FILE], ret.n)

\* C31 holds of every log that one read block holds whole.
C31_OneBlockExact ==
  (ret.call = "tail" /\ AllWellFormed(events[EVENTS_FILE])
     /\ FileSize(events[EVENTS_FILE]) <= block)
     => ret.val = LastRecords(events[EVENTS_FILE], ret.n)

\* C32: an append of one event through a store changes its index at the
\* pair (s, p) of the event alone: a Set or an Assert leaves there the
\* event's (ts, object); a Retract leaves no entry there, whatever object it
\* carries; the entry of every other pair is as it was.
AppendedOne ==
  /\ Len(hist') = Len(hist) + 1
  /\ Last(hist').call = "append"
  /\ Len(Last(hist').evs) = 1
C32_IndexUpdate ==
  [][AppendedOne =>
       LET ev == Last(hist').evs[1]
           sp == <<ev.triple[1], ev.triple[2]>>
           old == stores[Last(hist').st].latest_by_sp
           new == stores'[Last(hist').st].latest_by_sp
       IN /\ ev.op \in {"set", "assert"} =>
               /\ DOMAIN new = (DOMAIN old) \cup {sp}
               /\ new[sp] = <<ev.ts, ev.triple[3]>>
          /\ ev.op = "retract" => DOMAIN new = (DOMAIN old) \ {sp}
          /\ \A x \in (DOMAIN new) \ {sp} : new[x] = old[x]]_vars
\* Through one store (s1, p) was asserted as v2 and then retracted as v1:
\* the entry is gone, the entry of (s2, q) is there.
C32_Witness ==
  /\ Len(hist) >= 3
  /\ Last(hist).call = "append"
  /\ Last(hist).evs[1].op = "retract"
  /\ Last(hist).evs[1].triple = <<S1, "p", "v1">>
  /\ hist[Len(hist) - 1].call = "append"
  /\ hist[Len(hist) - 1].st = Last(hist).st
  /\ hist[Len(hist) - 1].evs[1].triple = <<S1, "p", "v2">>
  /\ <<S1, "p">> \notin DOMAIN stores[Last(hist).st].latest_by_sp
  /\ <<S2, "q">> \in DOMAIN stores[Last(hist).st].latest_by_sp

\* C33: on a directory written through upsert_card alone, in every store
\* constructed on it, materialize("card:" + id) equals read_card(id) with
\* every value coerced to text, for every card id.
AsText(m) == [k \in DOMAIN m |-> str(m[k])]
MaterializeNow(i, s) ==
  materialized(warmed(stores[i].latest_by_sp, events[stores[i].dir]), s, None)
InSync(i) ==
  \A c \in SyncIds :
     MaterializeNow(i, <<"card:">> \o c) = AsText(read_card_result(stores[i].cards, c))
C33_ProjectionInSync ==
  \A i \in StoreIds : stores[i].alive => InSync(i)

\* C33, of the one store through which the directory was last written and
\* whose card map is the projection document.
Current(i) ==
  /\ stores[i].alive
  /\ cardsFile[stores[i].dir].st = "ok"
  /\ stores[i].cards = cardsFile[stores[i].dir].doc
  /\ hist # <<>>
  /\ Last(hist).st = i
C33_CurrentInSync ==
  \A i \in StoreIds : Current(i) => InSync(i)

\* C33 holds of a store that has written nothing yet, as long as no other
\* store has written since it was constructed.
C33_NewStoreInSync ==
  \A i \in StoreIds :
     (/\ stores[i].alive
      /\ stores[i].cards = stores[i].loaded
      /\ stores[i].latest_by_sp = EmptyMap
      /\ stores[i].log0 = Len(events[stores[i].dir])) => InSync(i)

\* C34: at every point during and after an upsert_card call, a crash or an
\* I/O failure between its steps included, every property value of the
\* persisted projection document has a matching Set record (card key,
\* property, text of the value) in the event log.
HasSetRecord(log, key, k, v) ==
  \E n \in 1..Len(log) :
     /\ log[n].kind = "event"
     /\ log[n].obj.op = "set"
     /\ log[n].obj.triple = <<key, k, str(v)>>
Audited(d) ==
  LET doc == load_cards_index(cardsFile[d])
  IN \A key \in DOMAIN doc : \A k \in DOMAIN doc[key] :
        HasSetRecord(events[d], key, k, doc[key][k])
C34_AuditTrailComplete == \A d \in Dirs : Audited(d)

\* C34 holds where every upsert_card call runs to its end undisturbed (the
\* calls of SpecCards and SpecSync, which are not cut into steps).
C34_AuditedWhenWhole == \A d \in Dirs : Audited(d)

\* C35: when upsert_card fails while it persists the projection document,
\* the call fails, no event is appended to the log, and read_card,
\* list_cards and export_cards on that store return afterwards what they
\* returned before the call.
FailedUpsert(i) == stores[i].alive /\ saves[i].pc = "failed"
C35_FailedUpsertLeavesState ==
  \A i \in StoreIds :
     FailedUpsert(i) =>
        /\ Len(events[saves[i].dir]) = saves[i].log0
        /\ stores[i].cards = saves[i].cards0
        /\ list_cards_result(stores[i].cards) = list_cards_result(saves[i].cards0)
        /\ (ret.call = "read_card" /\ ret.st = i) =>
              ret.val = read_card_result(saves[i].cards0, ret.id)

\* What holds of a failed upsert_card: no event is appended and the
\* projection file is the document it was before the call.
C35_FailedUpsertLeavesFiles ==
  \A i \in StoreIds :
     FailedUpsert(i) =>
        /\ Len(events[saves[i].dir]) = saves[i].log0
        /\ load_cards_index(cardsFile[saves[i].dir]) = saves[i].before

\* C36: query, tail, materialize, read_card, list_cards and export_cards
\* leave the log and the projection file (and its temporary file) of every
\* directory and the card map of every store as they are; they leave the
\* index of every store as it is, but for materialize, which may fill the
\* index of its own store when that index is empty.
ReadCalls == {"query", "tail", "materialize", "read_card", "list_cards", "export_cards"}
C36_ReadsChangeNothing ==
  [][ret'.call \in ReadCalls =>
       /\ events' = events
       /\ cardsFile' = cardsFile
       /\ tmpFile' = tmpFile
       /\ \A i \in StoreIds :
            /\ stores'[i].alive = stores[i].alive
            /\ stores'[i].cards = stores[i].cards
            /\ \/ stores'[i].latest_by_sp = stores[i].latest_by_sp
               \/ /\ ret'.call = "materialize"
                  /\ ret'.st = i
                  /\ stores[i].latest_by_sp = EmptyMap]_vars
\* A store with cards, on a directory with a log, has filled its index in
\* its first materialize; the log it found is the log there is.
C36_Witness ==
  /\ ret.call = "materialize"
  /\ ret.first
  /\ stores[ret.st].latest_by_sp # EmptyMap
  /\ stores[ret.st].cards # EmptyMap
  /\ stores[ret.st].log0 = Len(events[stores[ret.st].dir])
  /\ stores[ret.st].log0 >= 2

\* C37: once DeleteCardTool has deleted card c (and no card was created
\* under c again), ReadCardTool on c reports that there is no such card and
\* ListCardTool does not list c, under every setting of USE_STATE_FOR_READS.
Gone(c) ==
  /\ c \notin DOMAIN load_cards(cardsJson)
  /\ \E k \in 1..Len(hist) : hist[k].call = "DeleteCardTool" /\ hist[k].id = <<c>>
C37_DeletedIsGone ==
  /\ (ret.call = "ReadCardTool" /\ Gone(ret.id[1])) => ret.exc = "ValueError"
  /\ ret.call = "ListCardTool" =>
        \A c \in ToolIds : Gone(c) => normalize_card_id(<<c>>) \notin DOMAIN ret.val

\* C37 holds of the reads made with USE_STATE_FOR_READS off (its default).
C37_LegacyReadsGone ==
  /\ (ret.call = "ReadCardTool" /\ ~ret.use_state /\ Gone(ret.id[1]))
        => ret.exc = "ValueError"
  /\ (ret.call = "ListCardTool" /\ ~ret.use_state) =>
        \A c \in ToolIds : Gone(c) => normalize_card_id(<<c>>) \notin DOMAIN ret.val

\* C38: CreateCardTool assigns an id that is not the key of a card of the
\* cards file, after any creates and deletes: no card of the file is
\* overwritten.
C38_FreshId ==
  [][ret'.call = "CreateCardTool" =>
       /\ ret'.id[1] \notin DOMAIN load_cards(cardsJson)
       /\ \A k \in DOMAIN load_cards(cardsJson) :
             load_cards(cardsJson')[k] = load_cards(cardsJson)[k]]_vars

\* C38 holds as long as no card was deleted.
C38_FreshIdWithoutDelete ==
  [][(ret'.call = "CreateCardTool"
        /\ \A k \in 1..Len(hist) : hist[k].call # "DeleteCardTool") =>
       /\ ret'.id[1] \notin DOMAIN load_cards(cardsJson)
       /\ \A k \in DOMAIN load_cards(cardsJson) :
             load_cards(cardsJson')[k] = load_cards(cardsJson)[k]]_vars

====
